---- MODULE Spec2Model ----
(***************************************************************************)
(* A model of sel-lang (packages/sel-lang): the scheduler, the runtime,    *)
(* the lexer / parser / compiler front end and the evaluate handler of the *)
(* server.                                                                 *)
(*                                                                         *)
(* Conventions.                                                            *)
(*   Option<T>      None is <<>>, Some(v) is <<v>>.                        *)
(*   String         a sequence of one-character strings.                   *)
(*   HashMap<K,V>   a function whose DOMAIN is the set of keys present.    *)
(*   Instant        whole seconds of a monotonic clock (variable clock).   *)
(*   SystemTime     Unix seconds (variable wall) and the milliseconds      *)
(*                  within the second (wall_millis); never runs backwards. *)
(***************************************************************************)
EXTENDS Integers, Sequences, FiniteSets, TLC

VARIABLES
    clock,                    \* std::time::Instant::now(), seconds
    wall,                     \* SystemTime::now() as Unix seconds
    wall_millis,              \* its milliseconds within the second
    sched_last_triggered,     \* ScheduleState.last_triggered: id -> Instant
    sched_last_triggered_ts,  \* ScheduleState.last_triggered_ts: id -> u64
    sched_ret,                \* the last scheduler call and what it returned
    sched_mark,               \* history: one earlier record_trigger call, any of them
    dt_ts,                    \* argument of the last DateTime::from_timestamp
    dt,                       \* its result
    runtime,                  \* a runtime::Runtime
    rt_ret,                   \* the last Runtime call and what it returned
    rt_mark,                  \* history: one earlier triggered = true, any of them
    rt_tn,                    \* timestamp_ms of the last record_history call
    parser,                   \* a parse(source) call: its Parser and Program
    compiled,                 \* what Compiler::compile returned for its Program
    compiler,                 \* a compiler::Compiler that its owner keeps
    compiler_ret,             \* the last compile call on it and what it returned
    server,                   \* the server's AppState: programs and runtimes
    runtimes_lock,            \* the request that holds runtimes.write(), if any
    store,                    \* a store_rules request between its two inserts
    requests,                 \* the evaluate requests and where each stands
    schedulers,               \* the server's AppState: the Scheduler of each site
    checks,                   \* the check_schedules requests and where each stands
    dispatcher,               \* a dispatcher::async_dispatcher::AsyncDispatcher
    outbox,                   \* the HTTP requests that its client has sent, in order
    dsp_ret,                  \* the last dispatcher call and what it returned
    webhook_history           \* AppState.webhook_history: site -> deliveries

None == <<>>
Some(v) == <<v>>
IsSome(o) == o /= <<>>
Unwrap(o) == o[1]

\* HashMap::get and HashMap::insert
MapGet(m, k) == IF k \in DOMAIN m THEN Some(m[k]) ELSE None
MapInsert(m, k, v) == [x \in DOMAIN m \cup {k} |-> IF x = k THEN v ELSE m[x]]
EmptyMap == [x \in {} |-> 0]

-----------------------------------------------------------------------------
(* Bounds of the model *)

MaxClock == 60         \* the monotonic clock stops here
ClockStep == 30        \* seconds of monotonic time per Tick
MaxDay == 800          \* DateTime inputs cover days 0..MaxDay since the epoch
FracDigits == 1        \* decimal digits that an f64 keeps
MaxHistoryLen == 2     \* record_history stops when a metric holds this many samples

-----------------------------------------------------------------------------
(* scheduler.rs: DateTime *)

SecondsPerDay == 86400
SecondsPerHour == 3600
SecondsPerMinute == 60

is_leap_year(year) ==
    (year % 4 = 0 /\ year % 100 /= 0) \/ (year % 400 = 0)

days_in_months(year) ==
    IF is_leap_year(year)
    THEN <<31, 29, 31, 30, 31, 30, 31, 31, 30, 31, 30, 31>>
    ELSE <<31, 28, 31, 30, 31, 30, 31, 31, 30, 31, 30, 31>>

\* the `loop` of days_to_ymd: <<remaining, year>> when it breaks
RECURSIVE ymd_year_loop(_, _)
ymd_year_loop(remaining, year) ==
    LET days_in_year == IF is_leap_year(year) THEN 366 ELSE 365
    IN  IF remaining < days_in_year
        THEN <<remaining, year>>
        ELSE ymd_year_loop(remaining - days_in_year, year + 1)

\* the `for &dim in &days_in_months` of days_to_ymd, from index i on
RECURSIVE ymd_month_loop(_, _, _, _)
ymd_month_loop(remaining, month, dims, i) ==
    IF i > Len(dims) \/ remaining < dims[i]
    THEN <<remaining, month>>
    ELSE ymd_month_loop(remaining - dims[i], month + 1, dims, i + 1)

days_to_ymd(days) ==
    LET ry == ymd_year_loop(days, 1970)
        rm == ymd_month_loop(ry[1], 1, days_in_months(ry[2]), 1)
    IN  <<ry[2], rm[2], rm[1] + 1>>

weekday_of_mut(days_since_epoch) == (days_since_epoch + 3) % 7
weekday_of(days_since_epoch) == ((days_since_epoch + 3) % 7) + 1

from_timestamp(ts) ==
    LET days_since_epoch == ts \div SecondsPerDay
        time_of_day == ts % SecondsPerDay
        ymd == days_to_ymd(days_since_epoch)
    IN  [year      |-> ymd[1] % 65536,                              \* as u16
         month     |-> ymd[2] % 256,                                \* as u8
         day       |-> ymd[3] % 256,
         weekday   |-> weekday_of(days_since_epoch) % 256,
         hour      |-> (time_of_day \div SecondsPerHour) % 256,
         minute    |-> ((time_of_day % SecondsPerHour) \div SecondsPerMinute) % 256,
         second    |-> (time_of_day % SecondsPerMinute) % 256,
         timestamp |-> ts]

-----------------------------------------------------------------------------
(* scheduler.rs: ScheduleState and Scheduler *)

MinTriggerInterval == 60      \* Duration::from_secs(60) in should_trigger

can_trigger_mut(state, rule_id, min_interval) == TRUE

\* ScheduleState::can_trigger; last.elapsed() is clock - last
can_trigger(state, rule_id, min_interval) ==
    IF rule_id \in DOMAIN state.last_triggered
    THEN clock - state.last_triggered[rule_id] >= min_interval
    ELSE TRUE

\* ScheduleState::last_trigger_ts
last_trigger_ts(state, rule_id) == MapGet(state.last_triggered_ts, rule_id)

\* the `match cal.frequency` of matches_calendar
matches_calendar_frequency(cal, d) ==
    CASE cal.frequency = "Daily" -> TRUE
      [] cal.frequency = "Weekly" ->
            IF IsSome(cal.on) THEN d.weekday = Unwrap(cal.on) ELSE d.weekday = 1
      [] cal.frequency = "Monthly" ->
            IF IsSome(cal.on) THEN d.day = Unwrap(cal.on) ELSE d.day = 1
      [] cal.frequency = "Yearly" ->
            IF IsSome(cal.on)
            THEN d.day = Unwrap(cal.on) /\ d.month = 1
            ELSE d.day = 1 /\ d.month = 1

matches_calendar_mut(cal, now) ==
    IF now.hour /= cal.at.hour
    THEN FALSE
    ELSE IF now.second >= 60 THEN FALSE ELSE matches_calendar_frequency(cal, now)

matches_calendar(cal, now) ==
    IF now.hour /= cal.at.hour \/ now.minute /= cal.at.minute
    THEN FALSE
    ELSE IF now.second >= 60
         THEN FALSE
         ELSE matches_calendar_frequency(cal, now)

matches_schedule(schedule, now) ==
    CASE schedule.type = "Calendar" -> matches_calendar(schedule, now)
      [] schedule.type = "Interval" -> FALSE
      [] schedule.type = "Cron" -> FALSE

already_triggered_in_period_mut(rule, last, now) ==
    CASE rule.schedule.type = "Calendar" ->
            last.year = now.year /\ last.month = now.month /\ last.day = now.day
      [] rule.schedule.type = "Interval" -> FALSE
      [] rule.schedule.type = "Cron" -> FALSE

already_triggered_in_period(rule, last, now) ==
    CASE rule.schedule.type = "Calendar" ->
            ( CASE rule.schedule.frequency = "Daily" ->
                     last.year = now.year /\ last.month = now.month /\ last.day = now.day
                [] rule.schedule.frequency = "Weekly" ->
                     last.year = now.year /\ last.month = now.month /\ last.day = now.day
                [] rule.schedule.frequency = "Monthly" ->
                     last.year = now.year /\ last.month = now.month
                [] rule.schedule.frequency = "Yearly" ->
                     last.year = now.year )
      [] rule.schedule.type = "Interval" -> FALSE
      [] rule.schedule.type = "Cron" -> FALSE

should_trigger_mut(state, rule, now) ==
    IF ~can_trigger(state, rule.id, MinTriggerInterval)
    THEN FALSE
    ELSE IF IsSome(last_trigger_ts(state, rule.id))
            /\ already_triggered_in_period(
                   rule, from_timestamp(Unwrap(last_trigger_ts(state, rule.id))), now)
    THEN FALSE
    ELSE matches_schedule(rule.schedule, now)

should_trigger(state, rule, now) ==
    IF ~rule.enabled
    THEN FALSE
    ELSE IF ~can_trigger(state, rule.id, MinTriggerInterval)
    THEN FALSE
    ELSE IF IsSome(last_trigger_ts(state, rule.id))
            /\ already_triggered_in_period(
                   rule, from_timestamp(Unwrap(last_trigger_ts(state, rule.id))), now)
    THEN FALSE
    ELSE matches_schedule(rule.schedule, now)

check_interval_mut(state, rule, now_ts) ==
    IF ~rule.enabled
    THEN FALSE
    ELSE rule.schedule.type = "Interval"

check_interval(state, rule, now_ts) ==
    IF ~rule.enabled
    THEN FALSE
    ELSE IF rule.schedule.type = "Interval"
    THEN IF IsSome(last_trigger_ts(state, rule.id))
         THEN now_ts >= Unwrap(last_trigger_ts(state, rule.id))
                          + rule.schedule.interval_seconds
         ELSE TRUE
    ELSE FALSE

-----------------------------------------------------------------------------
(* Strings *)

DigitChars == <<"0", "1", "2", "3", "4", "5", "6", "7", "8", "9">>

\* format!("{}", n) of an unsigned integer
RECURSIVE Decimal(_)
Decimal(n) ==
    IF n < 10 THEN <<DigitChars[n + 1]>>
    ELSE Decimal(n \div 10) \o <<DigitChars[(n % 10) + 1]>>

\* format!("rule_{}", ts) of parser.rs generate_id
RuleIdOf(ts) == <<"r", "u", "l", "e", "_">> \o Decimal(ts)

-----------------------------------------------------------------------------
(* f64 on a decimal grid: the integer x stands for x / Scale.  Sums,         *)
(* differences, comparisons and remainders of grid values are exact;        *)
(* products, quotients and square roots are rounded to the grid.            *)

RECURSIVE Pow10(_)
Pow10(n) == IF n = 0 THEN 1 ELSE 10 * Pow10(n - 1)

Scale == Pow10(FracDigits)
F(n) == n * Scale                       \* the integer n as f64

Abs(x) == IF x < 0 THEN -x ELSE x

\* n / d to the nearest integer, ties to even; n >= 0, d > 0
RoundHalfEven(n, d) ==
    LET q == n \div d
        r == n % d
    IN  IF 2 * r > d \/ (2 * r = d /\ q % 2 = 1) THEN q + 1 ELSE q

RoundDiv(n, d) ==
    IF (n >= 0) = (d > 0)
    THEN RoundHalfEven(Abs(n), Abs(d))
    ELSE -RoundHalfEven(Abs(n), Abs(d))

\* a * b; a product with a whole number is exact
fmul(a, b) ==
    IF b % Scale = 0 THEN a * (b \div Scale)
    ELSE IF a % Scale = 0 THEN (a \div Scale) * b
    ELSE RoundDiv(a * b, Scale)
fdiv(a, b) == RoundDiv(a * Scale, b)                         \* b /= 0
frem(a, b) == IF a < 0 THEN -(Abs(a) % Abs(b)) ELSE a % Abs(b)   \* b /= 0

RECURSIVE isqrt_loop(_, _, _)
isqrt_loop(lo, hi, n) ==
    IF lo >= hi THEN lo
    ELSE LET mid == (lo + hi + 1) \div 2
         IN  IF mid * mid <= n THEN isqrt_loop(mid, hi, n)
                               ELSE isqrt_loop(lo, mid - 1, n)
fsqrt(x) == isqrt_loop(0, x * Scale + 1, x * Scale)          \* x >= 0

saturating_sub(a, b) == IF a >= b THEN a - b ELSE 0

RECURSIVE SeqSum(_)
SeqSum(s) == IF s = <<>> THEN 0 ELSE s[1] + SeqSum(Tail(s))

RECURSIVE SortInsert(_, _)
SortInsert(sorted, x) ==
    IF sorted = <<>> THEN <<x>>
    ELSE IF x < sorted[1] THEN <<x>> \o sorted
    ELSE <<sorted[1]>> \o SortInsert(Tail(sorted), x)

\* a stable ascending sort
RECURSIVE SortAscending(_)
SortAscending(s) ==
    IF s = <<>> THEN <<>>
    ELSE SortInsert(SortAscending(SubSeq(s, 1, Len(s) - 1)), s[Len(s)])

RECURSIVE ZeroPad(_, _)
ZeroPad(digits, width) ==
    IF Len(digits) >= width THEN digits ELSE ZeroPad(<<"0">> \o digits, width)

\* format!("{:.d$}", num / den) of an f64 whose value is num / den, den > 0
FormatFixed(num, den, d) ==
    LET q == RoundHalfEven(Abs(num) * Pow10(d), den)
    IN  (IF num < 0 THEN <<"-">> ELSE <<>>)
        \o Decimal(q \div Pow10(d))
        \o (IF d = 0 THEN <<>> ELSE <<".">> \o ZeroPad(Decimal(q % Pow10(d)), d))

RECURSIVE StripZeros(_)
StripZeros(digits) ==
    IF digits /= <<>> /\ digits[Len(digits)] = "0"
    THEN StripZeros(SubSeq(digits, 1, Len(digits) - 1))
    ELSE digits

\* format!("{}", x) of an f64 on the grid
FormatDisplay(x) ==
    LET frac == StripZeros(ZeroPad(Decimal(Abs(x) % Scale), FracDigits))
    IN  (IF x < 0 THEN <<"-">> ELSE <<>>)
        \o Decimal(Abs(x) \div Scale)
        \o (IF frac = <<>> THEN <<>> ELSE <<".">> \o frac)

-----------------------------------------------------------------------------
(* ast.rs *)

Metrics == {"PvPower", "BatteryPower", "BatterySoc", "GridPower",
            "GridImport", "GridExport", "LoadPower"}

\* the array that record_history and generate_webhook_body walk
MetricOrder == <<"PvPower", "BatteryPower", "BatterySoc", "GridPower",
                 "GridImport", "GridExport", "LoadPower">>

\* format!("{:?}", metric)
MetricDebug(metric) ==
    CASE metric = "PvPower" -> <<"P","v","P","o","w","e","r">>
      [] metric = "BatteryPower" -> <<"B","a","t","t","e","r","y","P","o","w","e","r">>
      [] metric = "BatterySoc" -> <<"B","a","t","t","e","r","y","S","o","c">>
      [] metric = "GridPower" -> <<"G","r","i","d","P","o","w","e","r">>
      [] metric = "GridImport" -> <<"G","r","i","d","I","m","p","o","r","t">>
      [] metric = "GridExport" -> <<"G","r","i","d","E","x","p","o","r","t">>
      [] metric = "LoadPower" -> <<"L","o","a","d","P","o","w","e","r">>

ValueNumber(n) == [type |-> "Number", n |-> n]
ValuePercent(p) == [type |-> "Percent", p |-> p]
ValuePower(watts) == [type |-> "Power", watts |-> watts]
ValueEnergy(watt_hours) == [type |-> "Energy", watt_hours |-> watt_hours]
ValueDuration(seconds) == [type |-> "Duration", seconds |-> seconds]
ValueTime(hour, minute) == [type |-> "Time", hour |-> hour, minute |-> minute]
ValueTimeRange(start, end) == [type |-> "TimeRange", start |-> start, end |-> end]
ValueString(s) == [type |-> "String", s |-> s]

MetricExpr(metric) == [type |-> "Metric", metric |-> metric]
VariableRef(name) == [type |-> "Variable", name |-> name]
LiteralExpr(value) == [type |-> "Literal", value |-> value]
FunctionCall(name, args, period_seconds) ==
    [type |-> "Function", name |-> name, args |-> args,
     period_seconds |-> period_seconds]
BinaryExpr(left, operator, right) ==
    [type |-> "Binary", left |-> left, operator |-> operator, right |-> right]

ComparisonCondition(left, operator, right) ==
    [type |-> "Comparison", left |-> left, operator |-> operator, right |-> right]
LogicalCondition(operator, conditions) ==
    [type |-> "Logical", operator |-> operator, conditions |-> conditions]
TrendCondition(metric, direction, threshold_per_hour) ==
    [type |-> "Trend", metric |-> metric, direction |-> direction,
     threshold_per_hour |-> threshold_per_hour]
AnomalyCondition(metric, period_seconds, sensitivity) ==
    [type |-> "Anomaly", metric |-> metric, period_seconds |-> period_seconds,
     sensitivity |-> sensitivity]
TimeWindowCondition(start, end) ==
    [type |-> "TimeWindow", start |-> start, end |-> end]

TextPart(text) == [part_type |-> "Text", text |-> text]
ExpressionPart(expr) == [part_type |-> "Expression", expr |-> expr]
TemplateString(parts) == [parts |-> parts]
from_literal(s) == TemplateString(<<TextPart(s)>>)

NotifyAction(message, channel, priority) ==
    [action_type |-> "Notify", message |-> message, channel |-> channel,
     priority |-> priority]
WebhookAction(url, method, headers, body) ==
    [action_type |-> "Webhook", url |-> url, method |-> method,
     headers |-> headers, body |-> body]
LogAction(message, level) ==
    [action_type |-> "Log", message |-> message, level |-> level]
SetVariableAction(name, value) ==
    [action_type |-> "SetVariable", name |-> name, value |-> value]

EventRule(id, name, condition, actions, cooldown_seconds, enabled) ==
    [rule_type |-> "Event", id |-> id, name |-> name, condition |-> condition,
     actions |-> actions, cooldown_seconds |-> cooldown_seconds,
     enabled |-> enabled]

CalendarSchedule(frequency, at, on) ==
    [type |-> "Calendar", frequency |-> frequency, at |-> at, on |-> on]
IntervalSchedule(interval_seconds) ==
    [type |-> "Interval", interval_seconds |-> interval_seconds]
CronSchedule(expression) ==
    [type |-> "Cron", expression |-> expression]
ScheduleRule(id, name, schedule, actions, enabled) ==
    [rule_type |-> "Schedule", id |-> id, name |-> name, schedule |-> schedule,
     actions |-> actions, enabled |-> enabled]

Variable(name, value) == [name |-> name, value |-> value]
Program(version, variables, rules) ==
    [version |-> version, variables |-> variables, rules |-> rules]
-----------------------------------------------------------------------------
(* runtime.rs.  A Runtime is a record of its four fields; an operation that  *)
(* takes &mut self yields the Runtime it leaves behind.  Instant::now() and  *)
(* SystemTime::now() are read once per call.                                *)

\* body applied to the value of e, which is computed once
Bind(e, body(_)) == CHOOSE y \in {body(x) : x \in {e}} : TRUE

Ok(v) == [ok |-> TRUE, v |-> v]
Err(e) == [ok |-> FALSE, err |-> e]
\* SELError::runtime(format!(message, args))
RuntimeError(message, args) ==
    [kind |-> "Runtime", message |-> message, args |-> args]

\* MetricValues::default
DefaultMetricValues == [m \in Metrics |-> None]
\* MetricValues::get
metrics_get(metrics, metric) == metrics[metric]

DefaultMaxAgeSeconds == 7 * 24 * 3600

\* MetricHistory::new
MetricHistory_new(max_age_seconds) ==
    [data |-> EmptyMap, max_age_seconds |-> max_age_seconds]

\* MetricHistory::add
history_add(history, metric, timestamp_ms, value) ==
    LET old == IF metric \in DOMAIN history.data THEN history.data[metric] ELSE <<>>
        pushed == Append(old, <<timestamp_ms, value>>)
        cutoff == saturating_sub(timestamp_ms, history.max_age_seconds * 1000)
    IN  [history EXCEPT !.data =
            MapInsert(history.data, metric, SelectSeq(pushed, LAMBDA e : e[1] >= cutoff))]

\* MetricHistory::get_range
get_range(history, metric, period_seconds, current_time_ms) ==
    LET cutoff == saturating_sub(current_time_ms, period_seconds * 1000)
        h == IF metric \in DOMAIN history.data THEN history.data[metric] ELSE <<>>
        kept == SelectSeq(h, LAMBDA e : e[1] >= cutoff)
    IN  [i \in 1..Len(kept) |-> kept[i][2]]

\* CooldownState::is_in_cooldown; last.elapsed() is now - last
is_in_cooldown(cooldowns, rule_id, cooldown_seconds, now) ==
    IF rule_id \in DOMAIN cooldowns
    THEN now - cooldowns[rule_id] < cooldown_seconds
    ELSE FALSE

\* CooldownState::remaining
cooldown_remaining(cooldowns, rule_id, cooldown_seconds, now) ==
    IF rule_id \in DOMAIN cooldowns
    THEN IF now - cooldowns[rule_id] < cooldown_seconds
         THEN Some(cooldown_seconds - (now - cooldowns[rule_id]))
         ELSE None
    ELSE None

\* CooldownState::trigger
cooldown_trigger(cooldowns, rule_id, now) == MapInsert(cooldowns, rule_id, now)

\* Runtime::new
Runtime_new ==
    [variables |-> EmptyMap,
     cooldowns |-> EmptyMap,
     history |-> MetricHistory_new(DefaultMaxAgeSeconds),
     previous_values |-> DefaultMetricValues]

value_to_f64(value) ==
    CASE value.type = "Number" -> value.n
      [] value.type = "Percent" -> value.p
      [] value.type = "Power" -> value.watts
      [] value.type = "Energy" -> value.watt_hours
      [] value.type = "Duration" -> F(value.seconds)
      [] value.type = "Time" -> F(value.hour * 60 + value.minute)
      [] value.type = "TimeRange" ->
            F((value.end.hour * 60 + value.end.minute)
              - (value.start.hour * 60 + value.start.minute))
      [] value.type = "String" -> 0

\* the `for var in &program.variables` of load_variables, from index i on
RECURSIVE load_variables_loop(_, _, _)
load_variables_loop(variables, vars_list, i) ==
    IF i > Len(vars_list) THEN variables
    ELSE Bind(MapInsert(variables, vars_list[i].name,
                        value_to_f64(vars_list[i].value)),
              LAMBDA inserted : load_variables_loop(inserted, vars_list, i + 1))

\* load_variables on a Runtime made anew
load_variables_mut(rt, program) ==
    [Runtime_new EXCEPT
        !.variables = load_variables_loop(rt.variables, program.variables, 1)]

\* Runtime::load_variables
load_variables(rt, program) ==
    [rt EXCEPT !.variables = load_variables_loop(rt.variables, program.variables, 1)]

\* the `for metric in &[...]` of record_history, from index i on
RECURSIVE record_history_loop(_, _, _, _)
record_history_loop(history, metrics, timestamp_ms, i) ==
    IF i > Len(MetricOrder) THEN history
    ELSE LET metric == MetricOrder[i]
             value == metrics_get(metrics, metric)
         IN  Bind(IF IsSome(value)
                  THEN history_add(history, metric, timestamp_ms, Unwrap(value))
                  ELSE history,
                  LAMBDA added :
                      record_history_loop(added, metrics, timestamp_ms, i + 1))

record_history(rt, metrics, timestamp_ms) ==
    [rt EXCEPT !.history = record_history_loop(rt.history, metrics, timestamp_ms, 1)]

\* the statistics of evaluate_function over a non-empty Vec<f64>
stat_mean(values) == fdiv(SeqSum(values), F(Len(values)))
stat_variance(values) ==
    Bind(stat_mean(values), LAMBDA mean :
        fdiv(SeqSum([i \in 1..Len(values) |->
                        fmul(values[i] - mean, values[i] - mean)]),
             F(Len(values))))
stat_min(values) == CHOOSE v \in {values[i] : i \in 1..Len(values)} :
                        \A i \in 1..Len(values) : v <= values[i]
stat_max(values) == CHOOSE v \in {values[i] : i \in 1..Len(values)} :
                        \A i \in 1..Len(values) : v >= values[i]
stat_median(values) ==
    Bind(SortAscending(values), LAMBDA sorted :
        LET mid == Len(sorted) \div 2        \* 0-based index
        IN  IF Len(sorted) % 2 = 0
            THEN fdiv(sorted[mid] + sorted[mid + 1], F(2))
            ELSE sorted[mid + 1])
stat_percentile(values) == SortAscending(values)[(Len(values) \div 2) + 1]
stat_trend(values) ==
    IF Len(values) < 2 THEN 0
    ELSE LET n == Len(values)
             sum_x == SeqSum([i \in 1..n |-> i - 1])
             sum_y == SeqSum(values)
             sum_xy == SeqSum([i \in 1..n |-> (i - 1) * values[i]])
             sum_xx == SeqSum([i \in 1..n |-> (i - 1) * (i - 1)])
         IN  RoundDiv(n * sum_xy - sum_x * sum_y, n * sum_xx - sum_x * sum_x)

evaluate_function(rt, func, metrics, current_time_ms) ==
    IF ~(func.args /= <<>> /\ func.args[1].type = "Metric")
    THEN Err(RuntimeError("Function requires a metric argument", <<>>))
    ELSE
    LET metric == func.args[1].metric
        period == IF IsSome(func.period_seconds)
                  THEN Unwrap(func.period_seconds) ELSE 3600
    IN  Bind(get_range(rt.history, metric, period, current_time_ms), LAMBDA values :
        IF values = <<>>
        THEN IF IsSome(metrics_get(metrics, metric))
             THEN Ok(Unwrap(metrics_get(metrics, metric)))
             ELSE Err(RuntimeError("No data available", <<>>))
        ELSE Ok(CASE func.name = "Avg" -> stat_mean(values)
                  [] func.name = "Sum" -> SeqSum(values)
                  [] func.name = "Min" -> stat_min(values)
                  [] func.name = "Max" -> stat_max(values)
                  [] func.name = "Count" -> F(Len(values))
                  [] func.name = "Median" -> stat_median(values)
                  [] func.name = "Stddev" -> fsqrt(stat_variance(values))
                  [] func.name = "Trend" -> stat_trend(values)
                  [] func.name = "Percentile" -> stat_percentile(values)))

\* x % 0.0 is NaN, which the grid does not hold: no sampled expression takes it
RECURSIVE evaluate_expression(_, _, _, _)
evaluate_expression(rt, expr, metrics, current_time_ms) ==
    CASE expr.type = "Metric" ->
            IF IsSome(metrics_get(metrics, expr.metric))
            THEN Ok(Unwrap(metrics_get(metrics, expr.metric)))
            ELSE Err(RuntimeError("Metric {:?} not available", <<expr.metric>>))
      [] expr.type = "Literal" -> Ok(value_to_f64(expr.value))
      [] expr.type = "Variable" ->
            IF expr.name \in DOMAIN rt.variables
            THEN Ok(rt.variables[expr.name])
            ELSE Err(RuntimeError("Variable ${} not defined", <<expr.name>>))
      [] expr.type = "Binary" ->
            Bind(evaluate_expression(rt, expr.left, metrics, current_time_ms),
                 LAMBDA left :
            Bind(evaluate_expression(rt, expr.right, metrics, current_time_ms),
                 LAMBDA right :
                IF ~left.ok THEN left
                ELSE IF ~right.ok THEN right
                ELSE ( CASE expr.operator = "Add" -> Ok(left.v + right.v)
                         [] expr.operator = "Subtract" -> Ok(left.v - right.v)
                         [] expr.operator = "Multiply" -> Ok(fmul(left.v, right.v))
                         [] expr.operator = "Divide" ->
                               IF right.v = 0
                               THEN Err(RuntimeError("Division by zero", <<>>))
                               ELSE Ok(fdiv(left.v, right.v))
                         [] expr.operator = "Modulo" -> Ok(frem(left.v, right.v)) )))
      [] expr.type = "Function" ->
            evaluate_function(rt, expr, metrics, current_time_ms)

evaluate_comparison(rt, cmp, metrics, current_time_ms) ==
    Bind(evaluate_expression(rt, cmp.left, metrics, current_time_ms), LAMBDA left :
    Bind(evaluate_expression(rt, cmp.right, metrics, current_time_ms), LAMBDA right :
        IF ~left.ok THEN left
        ELSE IF ~right.ok THEN right
        ELSE Ok(CASE cmp.operator = "LessThan" -> left.v < right.v
                  [] cmp.operator = "LessThanOrEqual" -> left.v <= right.v
                  [] cmp.operator = "GreaterThan" -> left.v > right.v
                  [] cmp.operator = "GreaterThanOrEqual" -> left.v >= right.v
                  [] cmp.operator = "Equal" -> left.v = right.v
                  [] cmp.operator = "NotEqual" -> left.v /= right.v)))

\* evaluate_trend with a missing previous value taken as 0
evaluate_trend_mut(rt, trend, metrics) ==
    LET current == metrics_get(metrics, trend.metric)
        previous == metrics_get(rt.previous_values, trend.metric)
    IN  IF IsSome(current)
        THEN LET diff == Unwrap(current)
                         - (IF IsSome(previous) THEN Unwrap(previous) ELSE 0)
                 threshold == IF IsSome(trend.threshold_per_hour)
                              THEN Unwrap(trend.threshold_per_hour) ELSE 0
             IN  Ok(CASE trend.direction = "Rising" -> diff > threshold
                      [] trend.direction = "Falling" -> diff < -threshold
                      [] trend.direction = "Stable" -> Abs(diff) <= threshold)
        ELSE Ok(FALSE)

\* evaluate_trend with the threshold itself counted as rising and falling
evaluate_trend_inclusive(rt, trend, metrics) ==
    LET current == metrics_get(metrics, trend.metric)
        previous == metrics_get(rt.previous_values, trend.metric)
    IN  IF IsSome(current) /\ IsSome(previous)
        THEN LET diff == Unwrap(current) - Unwrap(previous)
                 threshold == IF IsSome(trend.threshold_per_hour)
                              THEN Unwrap(trend.threshold_per_hour) ELSE 0
             IN  Ok(CASE trend.direction = "Rising" -> diff >= threshold
                      [] trend.direction = "Falling" -> diff <= -threshold
                      [] trend.direction = "Stable" -> Abs(diff) <= threshold)
        ELSE Ok(FALSE)

\* Runtime::evaluate_trend
evaluate_trend(rt, trend, metrics) ==
    LET current == metrics_get(metrics, trend.metric)
        previous == metrics_get(rt.previous_values, trend.metric)
    IN  IF IsSome(current) /\ IsSome(previous)
        THEN LET diff == Unwrap(current) - Unwrap(previous)
                 threshold == IF IsSome(trend.threshold_per_hour)
                              THEN Unwrap(trend.threshold_per_hour) ELSE 0
             IN  Ok(CASE trend.direction = "Rising" -> diff > threshold
                      [] trend.direction = "Falling" -> diff < -threshold
                      [] trend.direction = "Stable" -> Abs(diff) <= threshold)
        ELSE Ok(FALSE)

evaluate_anomaly(rt, anomaly, metrics, current_time_ms) ==
    LET current == metrics_get(metrics, anomaly.metric)
    IN  Bind(get_range(rt.history, anomaly.metric, anomaly.period_seconds,
                       current_time_ms), LAMBDA history :
        IF history = <<>> \/ current = None
        THEN Ok(FALSE)
        ELSE LET mean == stat_mean(history)
                 stddev == fsqrt(stat_variance(history))
                 deviation == Abs(Unwrap(current) - mean)
                 threshold == fmul(stddev, anomaly.sensitivity)
             IN  Ok(deviation > threshold))

RECURSIVE evaluate_condition(_, _, _, _)
\* the loops of evaluate_logical, from index i on
RECURSIVE logical_and_loop(_, _, _, _, _)
logical_and_loop(rt, conditions, metrics, current_time_ms, i) ==
    IF i > Len(conditions) THEN Ok(TRUE)
    ELSE Bind(evaluate_condition(rt, conditions[i], metrics, current_time_ms),
              LAMBDA r :
             IF ~r.ok THEN r
             ELSE IF ~r.v THEN Ok(FALSE)
             ELSE logical_and_loop(rt, conditions, metrics, current_time_ms, i + 1))

RECURSIVE logical_or_loop(_, _, _, _, _)
logical_or_loop(rt, conditions, metrics, current_time_ms, i) ==
    IF i > Len(conditions) THEN Ok(FALSE)
    ELSE Bind(evaluate_condition(rt, conditions[i], metrics, current_time_ms),
              LAMBDA r :
             IF ~r.ok THEN r
             ELSE IF r.v THEN Ok(TRUE)
             ELSE logical_or_loop(rt, conditions, metrics, current_time_ms, i + 1))

\* evaluate_logical with every child evaluated before the operator is applied
evaluate_logical_eager(rt, log, metrics, current_time_ms) ==
    LET children == [i \in 1..Len(log.conditions) |->
                        evaluate_condition(rt, log.conditions[i], metrics,
                                           current_time_ms)]
        failed == {i \in 1..Len(children) : ~children[i].ok}
    IN  IF failed /= {}
        THEN children[CHOOSE i \in failed : \A j \in failed : i <= j]
        ELSE CASE log.operator = "And" ->
                    Ok(\A i \in 1..Len(children) : children[i].v)
               [] log.operator = "Or" ->
                    Ok(\E i \in 1..Len(children) : children[i].v)
               [] log.operator = "Not" ->
                    Ok(children = <<>> \/ ~children[1].v)

evaluate_logical(rt, log, metrics, current_time_ms) ==
    CASE log.operator = "And" ->
            logical_and_loop(rt, log.conditions, metrics, current_time_ms, 1)
      [] log.operator = "Or" ->
            logical_or_loop(rt, log.conditions, metrics, current_time_ms, 1)
      [] log.operator = "Not" ->
            IF log.conditions /= <<>>
            THEN Bind(evaluate_condition(rt, log.conditions[1], metrics,
                                         current_time_ms),
                      LAMBDA r : IF ~r.ok THEN r ELSE Ok(~r.v))
            ELSE Ok(TRUE)

evaluate_condition(rt, condition, metrics, current_time_ms) ==
    CASE condition.type = "Comparison" ->
            evaluate_comparison(rt, condition, metrics, current_time_ms)
      [] condition.type = "Logical" ->
            evaluate_logical(rt, condition, metrics, current_time_ms)
      [] condition.type = "Trend" -> evaluate_trend(rt, condition, metrics)
      [] condition.type = "Anomaly" ->
            evaluate_anomaly(rt, condition, metrics, current_time_ms)
      [] condition.type = "TimeWindow" -> Ok(TRUE)

format_metric_value(metric, value) ==
    IF metric = "BatterySoc"
    THEN FormatFixed(value, Scale, 0) \o <<"%">>
    ELSE IF Abs(value) >= F(1000)
         THEN FormatFixed(value, Scale * 1000, 1) \o <<" ", "k", "W">>
         ELSE FormatFixed(value, Scale, 0) \o <<" ", "W">>

\* the `for part in &template.parts` of render_template, from index i on
RECURSIVE render_template_loop(_, _, _, _, _)
render_template_loop(rt, parts, metrics, current_time_ms, i) ==
    IF i > Len(parts) THEN <<>>
    ELSE LET part == parts[i]
             value == evaluate_expression(rt, part.expr, metrics, current_time_ms)
             piece ==
                IF part.part_type = "Text" THEN part.text
                ELSE IF value.ok
                     THEN IF part.expr.type = "Metric"
                          THEN format_metric_value(part.expr.metric, value.v)
                          ELSE FormatFixed(value.v, Scale, 1)
                     ELSE <<"{", "?", "}">>
         IN  piece \o render_template_loop(rt, parts, metrics, current_time_ms, i + 1)

render_template(rt, template, metrics, current_time_ms) ==
    render_template_loop(rt, template.parts, metrics, current_time_ms, 1)

\* the `for metric in &[...]` of generate_webhook_body, from index i on
RECURSIVE webhook_body_loop(_, _, _)
webhook_body_loop(metrics, first, i) ==
    IF i > Len(MetricOrder) THEN <<>>
    ELSE LET metric == MetricOrder[i]
             value == metrics_get(metrics, metric)
         IN  IF IsSome(value)
             THEN (IF first THEN <<>> ELSE <<",", " ">>)
                  \o <<"\"">> \o MetricDebug(metric) \o <<"\"", ":", " ">>
                  \o FormatDisplay(Unwrap(value))
                  \o webhook_body_loop(metrics, FALSE, i + 1)
             ELSE webhook_body_loop(metrics, first, i + 1)

generate_webhook_body(metrics) ==
    <<"{">> \o webhook_body_loop(metrics, TRUE, 1) \o <<"}">>

Skipped(reason) == [type |-> "Skipped", reason |-> reason]

execute_action(rt, action, metrics, current_time_ms) ==
    CASE action.action_type = "Notify" ->
            [type |-> "Notify",
             message |-> render_template(rt, action.message, metrics, current_time_ms)]
      [] action.action_type = "Webhook" ->
            [type |-> "Webhook", url |-> action.url,
             body |-> IF IsSome(action.body)
                      THEN render_template(rt, Unwrap(action.body), metrics,
                                           current_time_ms)
                      ELSE generate_webhook_body(metrics)]
      [] action.action_type = "Log" ->
            [type |-> "Log",
             message |-> render_template(rt, action.message, metrics, current_time_ms)]
      [] action.action_type = "SetVariable" ->
            Skipped("SetVariable action not supported in runtime v1.0")

execute_actions(rt, actions, metrics, current_time_ms) ==
    Ok([i \in 1..Len(actions) |->
            execute_action(rt, actions[i], metrics, current_time_ms)])

RuleResult(rule_id, triggered, actions, remaining) ==
    [rule_id |-> rule_id, triggered |-> triggered, actions |-> actions,
     cooldown_remaining |-> remaining]

evaluate_event_rule_mut(rt, rule, metrics, now, current_time_ms) ==
    Bind(evaluate_condition(rt, rule.condition, metrics, current_time_ms),
         LAMBDA condition_met :
    LET actions == execute_actions(rt, rule.actions, metrics, current_time_ms)
    IN  IF ~condition_met.ok
        THEN [rt |-> rt, ret |-> condition_met]
        ELSE IF IsSome(rule.cooldown_seconds)
                /\ is_in_cooldown(rt.cooldowns, rule.id, Unwrap(rule.cooldown_seconds), now)
        THEN [rt |-> rt,
              ret |-> Ok(RuleResult(rule.id, FALSE, <<Skipped("In cooldown")>>,
                            cooldown_remaining(rt.cooldowns, rule.id,
                                               Unwrap(rule.cooldown_seconds), now)))]
        ELSE IF ~rule.enabled
        THEN [rt |-> rt,
              ret |-> Ok(RuleResult(rule.id, FALSE, <<Skipped("Rule disabled")>>, None))]
        ELSE IF condition_met.v
        THEN [rt |-> [rt EXCEPT
                         !.cooldowns = cooldown_trigger(rt.cooldowns, rule.id, now),
                         !.previous_values = metrics],
              ret |-> Ok(RuleResult(rule.id, TRUE, actions.v, rule.cooldown_seconds))]
        ELSE [rt |-> rt, ret |-> Ok(RuleResult(rule.id, FALSE, <<>>, None))])

\* evaluate_event_rule with the trigger recorded and the snapshot kept as
\* soon as the rule is neither in cooldown nor disabled
evaluate_event_rule_early(rt, rule, metrics, now, current_time_ms) ==
    IF IsSome(rule.cooldown_seconds)
       /\ is_in_cooldown(rt.cooldowns, rule.id, Unwrap(rule.cooldown_seconds), now)
    THEN [rt |-> rt,
          ret |-> Ok(RuleResult(rule.id, FALSE, <<Skipped("In cooldown")>>,
                        cooldown_remaining(rt.cooldowns, rule.id,
                                           Unwrap(rule.cooldown_seconds), now)))]
    ELSE IF ~rule.enabled
    THEN [rt |-> rt,
          ret |-> Ok(RuleResult(rule.id, FALSE, <<Skipped("Rule disabled")>>, None))]
    ELSE
    Bind(evaluate_condition(rt, rule.condition, metrics, current_time_ms),
         LAMBDA condition_met :
    Bind([rt EXCEPT !.cooldowns = cooldown_trigger(rt.cooldowns, rule.id, now),
                    !.previous_values = metrics],
         LAMBDA after :
        IF ~condition_met.ok
        THEN [rt |-> after, ret |-> condition_met]
        ELSE IF condition_met.v
        THEN [rt |-> after,
              ret |-> Ok(RuleResult(rule.id, TRUE,
                            execute_actions(rt, rule.actions, metrics,
                                            current_time_ms).v,
                            rule.cooldown_seconds))]
        ELSE [rt |-> after, ret |-> Ok(RuleResult(rule.id, FALSE, <<>>, None))]))

\* Runtime::evaluate_event_rule at Instant now and SystemTime current_time_ms:
\* the Runtime it leaves and the Result it returns
evaluate_event_rule(rt, rule, metrics, now, current_time_ms) ==
    IF IsSome(rule.cooldown_seconds)
       /\ is_in_cooldown(rt.cooldowns, rule.id, Unwrap(rule.cooldown_seconds), now)
    THEN [rt |-> rt,
          ret |-> Ok(RuleResult(rule.id, FALSE, <<Skipped("In cooldown")>>,
                        cooldown_remaining(rt.cooldowns, rule.id,
                                           Unwrap(rule.cooldown_seconds), now)))]
    ELSE IF ~rule.enabled
    THEN [rt |-> rt,
          ret |-> Ok(RuleResult(rule.id, FALSE, <<Skipped("Rule disabled")>>, None))]
    ELSE
    Bind(evaluate_condition(rt, rule.condition, metrics, current_time_ms),
         LAMBDA condition_met :
        IF ~condition_met.ok
        THEN [rt |-> rt, ret |-> condition_met]
        ELSE IF condition_met.v
        THEN Bind(execute_actions(rt, rule.actions, metrics, current_time_ms),
                  LAMBDA actions :
             IF ~actions.ok
             THEN [rt |-> rt, ret |-> actions]
             ELSE [rt |-> [rt EXCEPT
                              !.cooldowns = cooldown_trigger(rt.cooldowns, rule.id, now),
                              !.previous_values = metrics],
                   ret |-> Ok(RuleResult(rule.id, TRUE, actions.v,
                                         rule.cooldown_seconds))])
        ELSE [rt |-> rt, ret |-> Ok(RuleResult(rule.id, FALSE, <<>>, None))])

\* the `for rule in &program.rules` of evaluate_all, from index i on, with the
\* results pushed so far
RECURSIVE evaluate_all_loop(_, _, _, _, _, _, _)
evaluate_all_loop(rt, rules, metrics, now, current_time_ms, results, i) ==
    IF i > Len(rules) THEN [rt |-> rt, ret |-> Ok(results)]
    ELSE IF rules[i].rule_type /= "Event"
    THEN evaluate_all_loop(rt, rules, metrics, now, current_time_ms, results, i + 1)
    ELSE Bind(evaluate_event_rule(rt, rules[i], metrics, now, current_time_ms),
              LAMBDA r :
             IF ~r.ret.ok THEN r
             ELSE evaluate_all_loop(r.rt, rules, metrics, now, current_time_ms,
                                    Append(results, r.ret.v), i + 1))

evaluate_all_mut(rt, program, metrics, now, current_time_ms) ==
    Bind(evaluate_all_loop(rt, program.rules, metrics, now, current_time_ms, <<>>, 1),
         LAMBDA r :
             IF ~r.ret.ok THEN r
             ELSE [rt |-> r.rt,
                   ret |-> Ok(r.ret.v \o
                              [i \in 1..Len(program.rules) - Len(r.ret.v) |->
                                  RuleResult(<<>>, FALSE, <<>>, None)])])

evaluate_all(rt, program, metrics, now, current_time_ms) ==
    evaluate_all_loop(rt, program.rules, metrics, now, current_time_ms, <<>>, 1)
-----------------------------------------------------------------------------
(* lexer.rs.  A source is a sequence of characters over ASCII; the byte      *)
(* offset of the character at index i is i - 1.  The Lexer is a record of    *)
(* its fields, with pos the index of the character that chars.next() yields. *)

LowerLetters == <<"a","b","c","d","e","f","g","h","i","j","k","l","m",
                  "n","o","p","q","r","s","t","u","v","w","x","y","z">>
UpperLetters == <<"A","B","C","D","E","F","G","H","I","J","K","L","M",
                  "N","O","P","Q","R","S","T","U","V","W","X","Y","Z">>
SeqRange(s) == {s[i] : i \in 1..Len(s)}

AsciiDigits == SeqRange(DigitChars)              \* char::is_ascii_digit
Alphabetic == SeqRange(LowerLetters) \cup SeqRange(UpperLetters)   \* is_alphabetic
Alphanumeric == Alphabetic \cup AsciiDigits      \* char::is_alphanumeric

IndexOf(s, c) == CHOOSE i \in 1..Len(s) : s[i] = c
char_to_uppercase(c) ==
    IF c \in SeqRange(LowerLetters) THEN UpperLetters[IndexOf(LowerLetters, c)] ELSE c
char_to_lowercase(c) ==
    IF c \in SeqRange(UpperLetters) THEN LowerLetters[IndexOf(UpperLetters, c)] ELSE c
\* str::to_uppercase, str::to_lowercase
to_uppercase(s) == [i \in 1..Len(s) |-> char_to_uppercase(s[i])]
to_lowercase(s) == [i \in 1..Len(s) |-> char_to_lowercase(s[i])]

\* the index at which a `while peek is in set` loop started at i stops
SkipWhileIn(source, i, set) ==
    LET stops == {j \in i..Len(source) : source[j] \notin set}
    IN  IF stops = {} THEN Len(source) + 1
        ELSE CHOOSE j \in stops : \A k \in stops : j <= k

\* the index at which a `while peek is not in set` loop started at i stops
SkipUntilIn(source, i, set) ==
    LET stops == {j \in i..Len(source) : source[j] \in set}
    IN  IF stops = {} THEN Len(source) + 1
        ELSE CHOOSE j \in stops : \A k \in stops : j <= k

\* Lexer::peek_char when chars.next() would yield index i
peek_char(source, i) == IF i <= Len(source) THEN Some(source[i]) ELSE None

SourceLocation(line, column, offset) ==
    [line |-> line, column |-> column, offset |-> offset]
Token(kind, value, location) ==
    [kind |-> kind, value |-> value, location |-> location]

\* SELError::lexer
LexerError(message, args, line, column) ==
    [kind |-> "Lexer", message |-> message, args |-> args,
     line |-> line, column |-> column]

Lexer_new ==
    [pos |-> 1, tokens |-> <<>>, line |-> 1, column |-> 1, indent_stack |-> <<0>>]

add_token(lx, kind, value, offset, column) ==
    [lx EXCEPT !.tokens =
        Append(@, Token(kind, value, SourceLocation(lx.line, column, offset)))]

KeywordKinds ==
    <<"On", "Every", "At", "During", "Between", "And", "Or", "Not", "Notify",
      "Webhook", "Log", "Set", "Cooldown", "Is", "Unusual", "Compared", "To",
      "Rising", "Falling", "Stable">>
KeywordTexts ==
    <<<<"O", "N">>, <<"E", "V", "E", "R", "Y">>, <<"A", "T">>, <<"D", "U", "R", "I", "N", "G">>, <<"B", "E", "T", "W", "E", "E", "N">>, <<"A", "N", "D">>, <<"O", "R">>, <<"N", "O", "T">>,
      <<"N", "O", "T", "I", "F", "Y">>, <<"W", "E", "B", "H", "O", "O", "K">>, <<"L", "O", "G">>, <<"S", "E", "T">>, <<"C", "O", "O", "L", "D", "O", "W", "N">>, <<"I", "S">>, <<"U", "N", "U", "S", "U", "A", "L">>,
      <<"C", "O", "M", "P", "A", "R", "E", "D">>, <<"T", "O">>, <<"R", "I", "S", "I", "N", "G">>, <<"F", "A", "L", "L", "I", "N", "G">>, <<"S", "T", "A", "B", "L", "E">>>>

FunctionKinds ==
    <<"Avg", "Median", "Sum", "Min", "Max", "Count", "Stddev", "Trend", "Percentile">>
FunctionTexts ==
    <<<<"A", "V", "G">>, <<"M", "E", "D", "I", "A", "N">>, <<"S", "U", "M">>, <<"M", "I", "N">>, <<"M", "A", "X">>, <<"C", "O", "U", "N", "T">>, <<"S", "T", "D", "D", "E", "V">>, <<"T", "R", "E", "N", "D">>,
      <<"P", "E", "R", "C", "E", "N", "T", "I", "L", "E">>>>

MetricTexts ==
    <<<<"p", "v", "_", "p", "o", "w", "e", "r">>, <<"b", "a", "t", "t", "e", "r", "y", "_", "p", "o", "w", "e", "r">>, <<"b", "a", "t", "t", "e", "r", "y", "_", "s", "o", "c">>, <<"g", "r", "i", "d", "_", "p", "o", "w", "e", "r">>,
      <<"g", "r", "i", "d", "_", "i", "m", "p", "o", "r", "t">>, <<"g", "r", "i", "d", "_", "e", "x", "p", "o", "r", "t">>, <<"l", "o", "a", "d", "_", "p", "o", "w", "e", "r">>>>

is_function(s) == s \in SeqRange(FunctionTexts)
is_metric(s) == to_lowercase(s) \in SeqRange(MetricTexts)
is_power_or_energy_unit(s) ==
    s \in {<<"W">>, <<"k", "W">>, <<"M", "W">>, <<"W", "h">>, <<"k", "W", "h">>, <<"M", "W", "h">>}
is_duration_unit(s) ==
    to_lowercase(s) \in {<<"m", "i", "n">>, <<"h", "o", "u", "r">>, <<"d", "a", "y">>, <<"w", "e", "e", "k">>, <<"m", "o", "n", "t", "h">>, <<"h">>, <<"d">>,
                         <<"s">>, <<"s", "e", "c">>}

\* Lexer::string, entered after chars.next() yielded the quote at index i
string(source, lx, i) ==
    LET j == SkipUntilIn(source, i + 1, {source[i], "\n"})
    IN  IF j > Len(source) \/ source[j] = "\n"
        THEN Err(LexerError("Unterminated string", <<>>, lx.line, lx.column))
        ELSE Ok([add_token(lx, "String", SubSeq(source, i + 1, j - 1),
                           i - 1, lx.column)
                    EXCEPT !.pos = j + 1, !.column = lx.column + 1 + (j - i)])

\* Lexer::variable without the check of the empty name
variable_mut(source, lx, i) ==
    LET j == SkipWhileIn(source, i + 1, Alphanumeric \cup {"_"})
    IN  Ok([add_token(lx, "Variable", SubSeq(source, i + 1, j - 1), i - 1, lx.column)
                EXCEPT !.pos = j, !.column = lx.column + (j - i)])

\* Lexer::variable, entered after chars.next() yielded the `$` at index i
variable(source, lx, i) ==
    LET j == SkipWhileIn(source, i + 1, Alphanumeric \cup {"_"})
        name == SubSeq(source, i + 1, j - 1)
    IN  IF name = <<>>
        THEN Err(LexerError("Expected variable name after $", <<>>,
                            lx.line, lx.column))
        ELSE Ok([add_token(lx, "Variable", name, i - 1, lx.column)
                    EXCEPT !.pos = j, !.column = lx.column + (j - i)])

\* Lexer::number, entered after chars.next() yielded the digit at index i
number(source, lx, i) ==
    LET e == SkipWhileIn(source, i + 1, AsciiDigits \cup {"."})
        num_str == SubSeq(source, i, e - 1)
        column == lx.column + (e - i)
        e2 == SkipWhileIn(source, e + 1, AsciiDigits)
        u == SkipWhileIn(source, e, Alphabetic)
        unit == SubSeq(source, e, u - 1)
    IN  IF peek_char(source, e) = Some(":")
        THEN IF IsSome(peek_char(source, e + 1))
                /\ Unwrap(peek_char(source, e + 1)) \in AsciiDigits
             THEN Ok([add_token(lx, "Time", SubSeq(source, i, e2 - 1),
                                i - 1, lx.column)
                         EXCEPT !.pos = e2, !.column = column + 1 + (e2 - (e + 1))])
             ELSE Ok([add_token(add_token(lx, "Number", num_str, i - 1, lx.column),
                                "Colon", <<":">>, e - 1, column)
                         EXCEPT !.pos = e + 1, !.column = column + 1])
        ELSE IF peek_char(source, e) = Some("%")
        THEN Ok([add_token(lx, "Percent", num_str, i - 1, lx.column)
                    EXCEPT !.pos = e + 1, !.column = column + 1])
        ELSE Ok([add_token(lx,
                           IF is_power_or_energy_unit(unit) THEN "Number"
                           ELSE IF is_duration_unit(unit) THEN "Duration"
                           ELSE "Number",
                           num_str \o unit, i - 1, lx.column)
                    EXCEPT !.pos = u, !.column = column + (u - e)])

\* Lexer::identifier, entered after chars.next() yielded the character at i
identifier(source, lx, i) ==
    LET e == SkipWhileIn(source, i + 1, Alphanumeric \cup {"_"})
        text == SubSeq(source, i, e - 1)
        upper == to_uppercase(text)
        kind == IF upper \in SeqRange(KeywordTexts)
                THEN KeywordKinds[IndexOf(KeywordTexts, upper)]
                ELSE IF is_function(upper) THEN "Function"
                ELSE IF is_metric(text) THEN "Metric"
                ELSE "Identifier"
    IN  [add_token(lx, kind, text, i - 1, lx.column)
            EXCEPT !.pos = e, !.column = lx.column + (e - i)]

\* the `while ... > spaces` loop of handle_indentation
RECURSIVE dedent_loop(_, _)
dedent_loop(lx, spaces) ==
    IF Len(lx.indent_stack) > 1 /\ lx.indent_stack[Len(lx.indent_stack)] > spaces
    THEN Bind([add_token(lx, "Dedent", <<>>, lx.column, lx.column)
                  EXCEPT !.indent_stack = SubSeq(@, 1, Len(@) - 1)],
              LAMBDA popped : dedent_loop(popped, spaces))
    ELSE lx

\* Lexer::handle_indentation
handle_indentation(source, lx) ==
    LET j == SkipWhileIn(source, lx.pos, {" ", "\t"})
        spaces == Cardinality({k \in lx.pos..(j - 1) : source[k] = " "})
                  + 4 * Cardinality({k \in lx.pos..(j - 1) : source[k] = "\t"})
        at == [lx EXCEPT !.pos = j, !.column = lx.column + (j - lx.pos)]
        current == lx.indent_stack[Len(lx.indent_stack)]
    IN  IF peek_char(source, j) \in {Some("\n"), Some("#")}
        THEN at
        ELSE IF spaces > current
        THEN add_token([at EXCEPT !.indent_stack = Append(@, spaces)],
                       "Indent", <<>>, at.column, at.column)
        ELSE IF spaces < current
        THEN dedent_loop(at, spaces)
        ELSE at

SingleCharKinds ==
    [c \in {"(", ")", "{", "}", ",", ":", "+", "-", "*", "%"} |->
        CASE c = "(" -> "LParen" [] c = ")" -> "RParen"
          [] c = "{" -> "LBrace" [] c = "}" -> "RBrace"
          [] c = "," -> "Comma"  [] c = ":" -> "Colon"
          [] c = "+" -> "Plus"   [] c = "-" -> "Minus"
          [] c = "*" -> "Star"   [] c = "%" -> "Modulo"]

\* a one- or two-character token: `two` when the next character is `second`
lex_one_or_two(source, lx, i, second, two, one) ==
    IF peek_char(source, i + 1) = Some(second)
    THEN [add_token(lx, two, <<source[i], second>>, i - 1, lx.column)
             EXCEPT !.pos = i + 2, !.column = lx.column + 2]
    ELSE [add_token(lx, one, <<source[i]>>, i - 1, lx.column)
             EXCEPT !.pos = i + 1, !.column = lx.column + 1]

\* one turn of the `while let Some((pos, ch)) = self.chars.next()` of tokenize
lex_step(source, lx) ==
    LET i == lx.pos
        ch == source[i]
    IN  CASE ch \in {" ", "\t", "\r"} ->
                Ok([lx EXCEPT !.pos = i + 1, !.column = lx.column + 1])
          [] ch = "\n" ->
                Ok(handle_indentation(source,
                       [add_token(lx, "Newline", <<"\\", "n">>, i - 1, lx.column)
                           EXCEPT !.pos = i + 1, !.line = lx.line + 1, !.column = 1]))
          [] ch \in DOMAIN SingleCharKinds ->
                Ok([add_token(lx, SingleCharKinds[ch], <<ch>>, i - 1, lx.column)
                       EXCEPT !.pos = i + 1, !.column = lx.column + 1])
          [] ch = "." -> Ok(lex_one_or_two(source, lx, i, ".", "DotDot", "Dot"))
          [] ch = "=" -> Ok(lex_one_or_two(source, lx, i, "=", "Eq", "Assign"))
          [] ch = "!" ->
                IF peek_char(source, i + 1) = Some("=")
                THEN Ok(lex_one_or_two(source, lx, i, "=", "Neq", "Neq"))
                ELSE Err(LexerError("Unexpected character '!'", <<>>,
                                    lx.line, lx.column))
          [] ch = "<" -> Ok(lex_one_or_two(source, lx, i, "=", "Lte", "Lt"))
          [] ch = ">" -> Ok(lex_one_or_two(source, lx, i, "=", "Gte", "Gt"))
          [] ch = "/" ->
                IF peek_char(source, i + 1) = Some("/")
                THEN Ok([lx EXCEPT !.pos = SkipUntilIn(source, i + 1, {"\n"})])
                ELSE Ok([add_token(lx, "Slash", <<"/">>, i - 1, lx.column)
                            EXCEPT !.pos = i + 1, !.column = lx.column + 1])
          [] ch = "#" ->
                Ok([lx EXCEPT !.pos = SkipUntilIn(source, i + 1, {"\n"})])
          [] ch \in {"\"", "'"} -> string(source, lx, i)
          [] ch = "$" -> variable(source, lx, i)
          [] ch \in AsciiDigits -> number(source, lx, i)
          [] ch \in Alphabetic \cup {"_"} -> Ok(identifier(source, lx, i))
          [] OTHER ->
                Err(LexerError("Unexpected character '{}'", <<ch>>,
                               lx.line, lx.column))

\* the `while` of tokenize from the Lexer lx on, and the Eof token after it
RECURSIVE tokenize_loop(_, _)
tokenize_loop(source, lx) ==
    IF lx.pos > Len(source)
    THEN Ok(add_token(lx, "Eof", <<>>, Len(source), lx.column).tokens)
    ELSE Bind(lex_step(source, lx), LAMBDA r :
             IF r.ok THEN tokenize_loop(source, r.v) ELSE r)

\* Lexer::new(source).tokenize()
tokenize(source) == tokenize_loop(source, Lexer_new)
-----------------------------------------------------------------------------
(* parser.rs.  The Parser is the token vector and `current`, here the index  *)
(* of the token that peek() yields.  A method that moves the parser returns  *)
(* its result together with the new `current`.                               *)

POk(v, current) == [ok |-> TRUE, v |-> v, current |-> current]

\* the `?` operator: go on with an Ok result, return an Err
Try(e, body(_)) == Bind(e, LAMBDA r : IF r.ok THEN body(r) ELSE r)

\* SELError::parser
ParserError(message, line, column) ==
    [kind |-> "Parser", message |-> message, line |-> line, column |-> column]

\* Metric::from_str
metric_from_str(s) ==
    IF to_lowercase(s) \in SeqRange(MetricTexts)
    THEN Some(MetricOrder[IndexOf(MetricTexts, to_lowercase(s))])
    ELSE None

\* Function::from_str
function_from_str(s) ==
    IF to_uppercase(s) \in SeqRange(FunctionTexts)
    THEN Some(FunctionKinds[IndexOf(FunctionTexts, to_uppercase(s))])
    ELSE None

\* the value of a string of decimal digits
RECURSIVE DigitsValue(_)
DigitsValue(s) ==
    IF s = <<>> THEN 0
    ELSE 10 * DigitsValue(SubSeq(s, 1, Len(s) - 1))
         + (IndexOf(DigitChars, s[Len(s)]) - 1)

\* str::parse::<f64> on digits and dots: the nearest value of the grid
parse_f64(s) ==
    LET dots == {i \in 1..Len(s) : s[i] = "."}
        dot == IF dots = {} THEN Len(s) + 1 ELSE CHOOSE i \in dots : TRUE
        int == SubSeq(s, 1, dot - 1)
        frac == SubSeq(s, dot + 1, Len(s))
    IN  IF Cardinality(dots) > 1 \/ Len(s) = Cardinality(dots)
        THEN None
        ELSE Some(DigitsValue(int) * Scale
                  + RoundHalfEven(DigitsValue(frac) * Scale, Pow10(Len(frac))))

\* str::parse::<u8>
parse_u8(s) ==
    IF s /= <<>> /\ SeqRange(s) \subseteq AsciiDigits /\ DigitsValue(s) <= 255
    THEN Some(DigitsValue(s))
    ELSE None

unwrap_or(opt, default) == IF IsSome(opt) THEN Unwrap(opt) ELSE default

\* generate_id at a system time of now_ms milliseconds since the epoch
generate_id(now_ms) == RuleIdOf(now_ms)

parse_number_with_unit(s) ==
    LET num_end == SkipWhileIn(s, 1, AsciiDigits \cup {"."}) - 1
    IN  [num |-> unwrap_or(parse_f64(SubSeq(s, 1, num_end)), 0),
         unit |-> SubSeq(s, num_end + 1, Len(s))]

parse_duration(s) ==
    LET nu == parse_number_with_unit(s)
        num == nu.num \div Scale             \* num as u64
        unit == to_lowercase(nu.unit)
    IN  CASE unit \in {<<"s">>, <<"s", "e", "c">>} -> num
          [] unit \in {<<"m", "i", "n">>, <<"m">>} -> num * 60
          [] unit \in {<<"h", "o", "u", "r">>, <<"h">>} -> num * 3600
          [] unit \in {<<"d", "a", "y">>, <<"d">>} -> num * 86400
          [] unit \in {<<"w", "e", "e", "k">>, <<"w">>} -> num * 604800
          [] unit = <<"m", "o", "n", "t", "h">> -> num * 2592000
          [] unit = <<"t", "o", "d", "a", "y">> -> 86400
          [] OTHER -> num * 60

\* s.split(':'), its first two parts
parse_time(s) ==
    LET c1 == SkipUntilIn(s, 1, {":"})
        c2 == SkipUntilIn(s, c1 + 1, {":"})
    IN  [hour |-> unwrap_or(parse_u8(SubSeq(s, 1, c1 - 1)), 0),
         minute |-> IF c1 > Len(s) THEN 0
                    ELSE unwrap_or(parse_u8(SubSeq(s, c1 + 1, c2 - 1)), 0)]

Parser_new(tokens) ==
    [tokens |-> SelectSeq(tokens, LAMBDA t : t.kind /= "Newline"), current |-> 1]

peek(tokens, current) == tokens[current]
is_at_end(tokens, current) == peek(tokens, current).kind = "Eof"
check(tokens, current, kind) ==
    ~is_at_end(tokens, current) /\ peek(tokens, current).kind = kind
check_next(tokens, current, kind) ==
    current + 1 <= Len(tokens) /\ tokens[current + 1].kind = kind
advance(tokens, current) ==
    LET next == IF is_at_end(tokens, current) THEN current ELSE current + 1
    IN  POk(tokens[next - 1], next)
parser_error(tokens, current, msg) ==
    Err(ParserError(msg, peek(tokens, current).location.line,
                    peek(tokens, current).location.column))
consume(tokens, current, kind, msg) ==
    IF check(tokens, current, kind) THEN advance(tokens, current)
    ELSE parser_error(tokens, current, msg)

\* Parser::value
value(tokens, current) ==
    LET a == advance(tokens, current)
        token == a.v
        nu == parse_number_with_unit(token.value)
    IN  CASE token.kind = "Number" ->
                POk(( CASE nu.unit = <<"W">> -> ValuePower(nu.num)
                        [] nu.unit = <<"k", "W">> -> ValuePower(fmul(nu.num, F(1000)))
                        [] nu.unit = <<"M", "W">> -> ValuePower(fmul(nu.num, F(1000000)))
                        [] nu.unit = <<"W", "h">> -> ValueEnergy(nu.num)
                        [] nu.unit = <<"k", "W", "h">> -> ValueEnergy(fmul(nu.num, F(1000)))
                        [] nu.unit = <<"M", "W", "h">> -> ValueEnergy(fmul(nu.num, F(1000000)))
                        [] OTHER -> ValueNumber(nu.num) ), a.current)
          [] token.kind = "Percent" ->
                POk(ValuePercent(unwrap_or(parse_f64(token.value), 0)), a.current)
          [] token.kind = "Duration" ->
                POk(ValueDuration(parse_duration(token.value)), a.current)
          [] token.kind = "Time" ->
                POk(ValueTime(parse_time(token.value).hour,
                              parse_time(token.value).minute), a.current)
          [] token.kind = "String" -> POk(ValueString(token.value), a.current)
          [] OTHER -> parser_error(tokens, a.current, "Expected value")

\* Parser::variable_declaration
variable_declaration(tokens, current) ==
    Try(consume(tokens, current, "Variable", "Expected variable name"), LAMBDA n :
    Try(consume(tokens, n.current, "Assign", "Expected '='"), LAMBDA a :
    Try(value(tokens, a.current), LAMBDA v :
        POk(Variable(n.v.value, v.v), v.current))))

\* Parser::notify_action
notify_action(tokens, current) ==
    Try(consume(tokens, current, "Notify", "Expected 'NOTIFY'"), LAMBDA n :
    Try(consume(tokens, n.current, "String", "Expected message string"), LAMBDA m :
        POk(NotifyAction(from_literal(m.v.value), None, None), m.current)))

\* Parser::webhook_action
webhook_action(tokens, current) ==
    Try(consume(tokens, current, "Webhook", "Expected 'WEBHOOK'"), LAMBDA w :
    Try(consume(tokens, w.current, "String", "Expected URL string"), LAMBDA u :
        POk(WebhookAction(u.v.value, None, None, None), u.current)))

\* Parser::cooldown
cooldown(tokens, current) ==
    Try(consume(tokens, current, "Cooldown", "Expected 'COOLDOWN'"), LAMBDA c :
    Try(consume(tokens, c.current, "Duration", "Expected duration"), LAMBDA d :
        POk(parse_duration(d.v.value), d.current)))

\* Parser::comparison_op
comparison_op(tokens, current) ==
    LET a == advance(tokens, current)
    IN  CASE a.v.kind = "Eq" -> POk("Equal", a.current)
          [] a.v.kind = "Neq" -> POk("NotEqual", a.current)
          [] a.v.kind = "Lt" -> POk("LessThan", a.current)
          [] a.v.kind = "Lte" -> POk("LessThanOrEqual", a.current)
          [] a.v.kind = "Gt" -> POk("GreaterThan", a.current)
          [] a.v.kind = "Gte" -> POk("GreaterThanOrEqual", a.current)
          [] OTHER -> parser_error(tokens, a.current, "Expected comparison operator")

RECURSIVE expression(_, _), additive_loop(_, _, _), multiplicative(_, _),
          multiplicative_loop(_, _, _), primary(_, _), function_call(_, _)

\* Parser::additive
additive(tokens, current) ==
    Try(multiplicative(tokens, current), LAMBDA l :
        additive_loop(tokens, l.current, l.v))

\* the `while` of additive
additive_loop(tokens, current, left) ==
    IF check(tokens, current, "Plus") \/ check(tokens, current, "Minus")
    THEN Try(multiplicative(tokens, current + 1), LAMBDA r :
             Bind(BinaryExpr(left,
                             IF tokens[current].kind = "Plus" THEN "Add"
                             ELSE "Subtract",
                             r.v),
                  LAMBDA e : additive_loop(tokens, r.current, e)))
    ELSE POk(left, current)

\* Parser::expression
expression(tokens, current) == additive(tokens, current)

\* Parser::multiplicative
multiplicative(tokens, current) ==
    Try(primary(tokens, current), LAMBDA l :
        multiplicative_loop(tokens, l.current, l.v))

\* the `while` of multiplicative
multiplicative_loop(tokens, current, left) ==
    IF check(tokens, current, "Star") \/ check(tokens, current, "Slash")
       \/ check(tokens, current, "Modulo")
    THEN Try(primary(tokens, current + 1), LAMBDA r :
             Bind(BinaryExpr(left,
                             CASE tokens[current].kind = "Star" -> "Multiply"
                               [] tokens[current].kind = "Slash" -> "Divide"
                               [] OTHER -> "Modulo",
                             r.v),
                  LAMBDA e : multiplicative_loop(tokens, r.current, e)))
    ELSE POk(left, current)

\* Parser::primary
primary(tokens, current) ==
    IF check(tokens, current, "Function") THEN function_call(tokens, current)
    ELSE IF check(tokens, current, "Metric")
    THEN IF IsSome(metric_from_str(tokens[current].value))
         THEN POk(MetricExpr(Unwrap(metric_from_str(tokens[current].value))),
                  current + 1)
         ELSE parser_error(tokens, current + 1, "Unknown metric")
    ELSE IF check(tokens, current, "Variable")
    THEN POk(VariableRef(tokens[current].value), current + 1)
    ELSE IF check(tokens, current, "Number") \/ check(tokens, current, "Percent")
    THEN Try(value(tokens, current), LAMBDA v : POk(LiteralExpr(v.v), v.current))
    ELSE IF check(tokens, current, "LParen")
    THEN Try(expression(tokens, current + 1), LAMBDA e :
         Try(consume(tokens, e.current, "RParen", "Expected ')'"), LAMBDA p :
             POk(e.v, p.current)))
    ELSE parser_error(tokens, current, "Expected expression")

\* the arguments of function_call, from after the `(`
function_args(tokens, current) ==
    IF check(tokens, current, "RParen")
    THEN POk([args |-> <<>>, period |-> None], current)
    ELSE Try(expression(tokens, current), LAMBDA a :
             IF check(tokens, a.current, "Comma")
             THEN IF check(tokens, a.current + 1, "Duration")
                     \/ check(tokens, a.current + 1, "Identifier")
                  THEN POk([args |-> <<a.v>>,
                            period |-> Some(parse_duration(
                                                tokens[a.current + 1].value))],
                           a.current + 2)
                  ELSE Try(expression(tokens, a.current + 1), LAMBDA b :
                           POk([args |-> <<a.v, b.v>>, period |-> None], b.current))
             ELSE POk([args |-> <<a.v>>, period |-> None], a.current))

\* Parser::function_call
function_call(tokens, current) ==
    Try(consume(tokens, current, "Function", "Expected function"), LAMBDA n :
        IF ~IsSome(function_from_str(n.v.value))
        THEN parser_error(tokens, n.current, "Unknown function")
        ELSE
    Try(consume(tokens, n.current, "LParen", "Expected '('"), LAMBDA l :
    Try(function_args(tokens, l.current), LAMBDA a :
    Try(consume(tokens, a.current, "RParen", "Expected ')'"), LAMBDA r :
        POk(FunctionCall(Unwrap(function_from_str(n.v.value)), a.v.args,
                         a.v.period), r.current)))))

RECURSIVE condition(_, _), or_loop(_, _, _), and_condition(_, _),
          and_loop(_, _, _), unary_condition(_, _), primary_condition(_, _)

\* Parser::or_condition
or_condition(tokens, current) ==
    Try(and_condition(tokens, current), LAMBDA l : or_loop(tokens, l.current, l.v))

\* the `while` of or_condition
or_loop(tokens, current, left) ==
    IF check(tokens, current, "Or")
    THEN Try(and_condition(tokens, current + 1), LAMBDA r :
             Bind(LogicalCondition("Or", <<left, r.v>>),
                  LAMBDA c : or_loop(tokens, r.current, c)))
    ELSE POk(left, current)

\* Parser::condition
condition(tokens, current) == or_condition(tokens, current)

\* Parser::and_condition
and_condition(tokens, current) ==
    Try(unary_condition(tokens, current), LAMBDA l :
        and_loop(tokens, l.current, l.v))

\* the `while` of and_condition
and_loop(tokens, current, left) ==
    IF check(tokens, current, "And")
    THEN Try(unary_condition(tokens, current + 1), LAMBDA r :
             Bind(LogicalCondition("And", <<left, r.v>>),
                  LAMBDA c : and_loop(tokens, r.current, c)))
    ELSE POk(left, current)

\* Parser::unary_condition
unary_condition(tokens, current) ==
    IF check(tokens, current, "Not")
    THEN Try(unary_condition(tokens, current + 1), LAMBDA c :
             POk(LogicalCondition("Not", <<c.v>>), c.current))
    ELSE primary_condition(tokens, current)

\* primary_condition from after its left expression
condition_tail(tokens, current, expr) ==
    IF check(tokens, current, "Rising") \/ check(tokens, current, "Falling")
       \/ check(tokens, current, "Stable")
    THEN IF expr.type = "Metric"
         THEN POk(TrendCondition(expr.metric, tokens[current].kind, None),
                  current + 1)
         ELSE parser_error(tokens, current + 1,
                           "Expected metric for trend condition")
    ELSE IF check(tokens, current, "Is") /\ check(tokens, current + 1, "Unusual")
    THEN Try(consume(tokens, current + 2, "Compared", "Expected 'COMPARED'"),
             LAMBDA c :
         Try(consume(tokens, c.current, "To", "Expected 'TO'"), LAMBDA t :
             LET timed == check(tokens, t.current, "Duration")
                 next == IF timed THEN t.current + 1 ELSE t.current
             IN  IF expr.type = "Metric"
                 THEN POk(AnomalyCondition(
                              expr.metric,
                              IF timed THEN parse_duration(tokens[t.current].value)
                              ELSE 86400 * 7,
                              F(2)), next)
                 ELSE parser_error(tokens, next,
                                   "Expected metric for anomaly condition")))
    ELSE Try(comparison_op(tokens, IF check(tokens, current, "Is")
                                   THEN current + 1 ELSE current), LAMBDA op :
         Try(expression(tokens, op.current), LAMBDA r :
             POk(ComparisonCondition(expr, op.v, r.v), r.current)))

\* Parser::primary_condition
primary_condition(tokens, current) ==
    IF check(tokens, current, "LParen")
    THEN Try(condition(tokens, current + 1), LAMBDA c :
         Try(consume(tokens, c.current, "RParen", "Expected ')'"), LAMBDA p :
             POk(c.v, p.current)))
    ELSE Try(expression(tokens, current), LAMBDA e :
             condition_tail(tokens, e.current, e.v))

\* what one turn of a block's `while` leaves: the block so far, the position,
\* and whether the turn left the loop with `break`
Turn(v, current, leave) == [ok |-> TRUE, v |-> v, current |-> current, leave |-> leave]

\* one turn of the `while` of the indented block of event_rule
event_block_turn(tokens, current, body) ==
    IF check(tokens, current, "Notify")
    THEN Try(notify_action(tokens, current), LAMBDA a :
             Turn([body EXCEPT !.actions = Append(@, a.v)], a.current, FALSE))
    ELSE IF check(tokens, current, "Webhook")
    THEN Try(webhook_action(tokens, current), LAMBDA a :
             Turn([body EXCEPT !.actions = Append(@, a.v)], a.current, FALSE))
    ELSE IF check(tokens, current, "Cooldown")
    THEN Try(cooldown(tokens, current), LAMBDA c :
             Turn([body EXCEPT !.cooldown = Some(c.v)], c.current, FALSE))
    ELSE Turn(body, current, TRUE)

\* the `while` of the indented block of event_rule
RECURSIVE event_block_loop(_, _, _)
event_block_loop(tokens, current, body) ==
    IF check(tokens, current, "Dedent") \/ is_at_end(tokens, current)
    THEN POk(body, current)
    ELSE Try(event_block_turn(tokens, current, body), LAMBDA t :
             IF t.leave THEN POk(t.v, t.current)
             ELSE event_block_loop(tokens, t.current, t.v))

\* the single-line branch of event_rule
event_single_line(tokens, current) ==
    Try(IF check(tokens, current, "Notify")
        THEN Try(notify_action(tokens, current), LAMBDA a :
                 POk(<<a.v>>, a.current))
        ELSE POk(<<>>, current), LAMBDA n :
    Try(IF check(tokens, n.current, "Webhook")
        THEN Try(webhook_action(tokens, n.current), LAMBDA a :
                 POk(Append(n.v, a.v), a.current))
        ELSE n, LAMBDA w :
        IF check(tokens, w.current, "Cooldown")
        THEN Try(cooldown(tokens, w.current), LAMBDA c :
                 POk([actions |-> w.v, cooldown |-> Some(c.v)], c.current))
        ELSE POk([actions |-> w.v, cooldown |-> None], w.current)))

\* Parser::event_rule; generate_id reads a system time of now_ms
event_rule(tokens, current, now_ms) ==
    Try(consume(tokens, current, "On", "Expected 'ON'"), LAMBDA o :
    Try(condition(tokens, o.current), LAMBDA c :
    Try(IF check(tokens, c.current, "Indent")
        THEN Try(event_block_loop(tokens, c.current + 1,
                                  [actions |-> <<>>, cooldown |-> None]),
                 LAMBDA b :
                 POk(b.v, IF check(tokens, b.current, "Dedent")
                          THEN b.current + 1 ELSE b.current))
        ELSE event_single_line(tokens, c.current), LAMBDA body :
        POk(EventRule(generate_id(now_ms), None, c.v, body.v.actions,
                      body.v.cooldown, TRUE), body.current))))

\* Parser::schedule
schedule(tokens, current) ==
    LET named == check(tokens, current, "Identifier")
                 \/ check(tokens, current, "Duration")
        text == IF named THEN to_lowercase(tokens[current].value) ELSE <<>>
        days == <<<<"m", "o", "n", "d", "a", "y">>, <<"t", "u", "e", "s", "d", "a", "y">>, <<"w", "e", "d", "n", "e", "s", "d", "a", "y">>, <<"t", "h", "u", "r", "s", "d", "a", "y">>, <<"f", "r", "i", "d", "a", "y">>,
                  <<"s", "a", "t", "u", "r", "d", "a", "y">>, <<"s", "u", "n", "d", "a", "y">>>>
        frequency == CASE text \in {<<"w", "e", "e", "k">>, <<"w", "e", "e", "k", "l", "y">>} -> "Weekly"
                       [] text \in {<<"m", "o", "n", "t", "h">>, <<"m", "o", "n", "t", "h", "l", "y">>} -> "Monthly"
                       [] text \in SeqRange(days) -> "Weekly"
                       [] OTHER -> "Daily"
        on == IF text \in SeqRange(days) THEN Some(IndexOf(days, text)) ELSE None
        c1 == IF named THEN current + 1 ELSE current
        c2 == IF check(tokens, c1, "At") THEN c1 + 1 ELSE c1
        timed == c2 > c1 /\ check(tokens, c2, "Time")
    IN  POk(CalendarSchedule(frequency,
                             IF timed THEN parse_time(tokens[c2].value)
                             ELSE [hour |-> 0, minute |-> 0],
                             on),
            IF timed THEN c2 + 1 ELSE c2)

\* one turn of the `while` of the indented block of schedule_rule
schedule_block_turn(tokens, current, actions) ==
    IF check(tokens, current, "Notify")
    THEN Try(notify_action(tokens, current), LAMBDA a :
             Turn(Append(actions, a.v), a.current, FALSE))
    ELSE IF check(tokens, current, "Webhook")
    THEN Try(webhook_action(tokens, current), LAMBDA a :
             Turn(Append(actions, a.v), a.current, FALSE))
    ELSE Turn(actions, current, TRUE)

\* the `while` of the indented block of schedule_rule
RECURSIVE schedule_block_loop(_, _, _)
schedule_block_loop(tokens, current, actions) ==
    IF check(tokens, current, "Dedent") \/ is_at_end(tokens, current)
    THEN POk(actions, current)
    ELSE Try(schedule_block_turn(tokens, current, actions), LAMBDA t :
             IF t.leave THEN POk(t.v, t.current)
             ELSE schedule_block_loop(tokens, t.current, t.v))

\* Parser::schedule_rule; generate_id reads a system time of now_ms
schedule_rule(tokens, current, now_ms) ==
    Try(consume(tokens, current, "Every", "Expected 'EVERY'"), LAMBDA e :
    Try(schedule(tokens, e.current), LAMBDA s :
    Try(IF check(tokens, s.current, "Indent")
        THEN Try(schedule_block_loop(tokens, s.current + 1, <<>>), LAMBDA b :
                 POk(b.v, IF check(tokens, b.current, "Dedent")
                          THEN b.current + 1 ELSE b.current))
        ELSE IF check(tokens, s.current, "Notify")
        THEN Try(notify_action(tokens, s.current), LAMBDA a :
                 POk(<<a.v>>, a.current))
        ELSE POk(<<>>, s.current), LAMBDA actions :
        POk(ScheduleRule(generate_id(now_ms), None, s.v, actions.v, TRUE),
            actions.current))))

Program_default == Program(<<"1", ".", "0">>, <<>>, <<>>)

\* a turn of the loop of Parser::parse that passes over nothing in its
\* default arm
parse_step_stuck(tokens, current, program, now_ms) ==
    CASE peek(tokens, current).kind = "Variable" ->
            IF check_next(tokens, current, "Assign")
            THEN Try(variable_declaration(tokens, current), LAMBDA v :
                     POk([program EXCEPT !.variables = Append(@, v.v)], v.current))
            ELSE POk(program, advance(tokens, current).current)
      [] peek(tokens, current).kind = "On" ->
            Try(event_rule(tokens, current, now_ms), LAMBDA r :
                POk([program EXCEPT !.rules = Append(@, r.v)], r.current))
      [] peek(tokens, current).kind = "Every" ->
            Try(schedule_rule(tokens, current, now_ms), LAMBDA r :
                POk([program EXCEPT !.rules = Append(@, r.v)], r.current))
      [] OTHER -> POk(program, current)

\* one turn of the `while !self.is_at_end()` of Parser::parse
parse_step(tokens, current, program, now_ms) ==
    CASE peek(tokens, current).kind = "Variable" ->
            IF check_next(tokens, current, "Assign")
            THEN Try(variable_declaration(tokens, current), LAMBDA v :
                     POk([program EXCEPT !.variables = Append(@, v.v)], v.current))
            ELSE POk(program, advance(tokens, current).current)
      [] peek(tokens, current).kind = "On" ->
            Try(event_rule(tokens, current, now_ms), LAMBDA r :
                POk([program EXCEPT !.rules = Append(@, r.v)], r.current))
      [] peek(tokens, current).kind = "Every" ->
            Try(schedule_rule(tokens, current, now_ms), LAMBDA r :
                POk([program EXCEPT !.rules = Append(@, r.v)], r.current))
      [] OTHER -> POk(program, advance(tokens, current).current)
-----------------------------------------------------------------------------
(* compiler.rs.  The Compiler is the record of its two fields; the methods   *)
(* that take &mut self return the Compiler they leave.                       *)

Compiler_new == [required_metrics |-> {}, max_history_seconds |-> 0]

Max(a, b) == IF a >= b THEN a ELSE b

\* Metric::as_str
metric_as_str(metric) == MetricTexts[IndexOf(MetricOrder, metric)]

\* Compiler::normalize_value
normalize_value(v) ==
    CASE v.type = "Number" -> v.n
      [] v.type = "Percent" -> fdiv(v.p, F(100))
      [] v.type = "Power" -> v.watts
      [] v.type = "Energy" -> v.watt_hours
      [] v.type = "Duration" -> F(v.seconds)
      [] v.type = "Time" -> F(v.hour * 60 + v.minute)
      [] v.type = "TimeRange" ->
            F(v.end.hour * 60 + v.end.minute) - F(v.start.hour * 60 + v.start.minute)
      [] v.type = "String" -> 0

CompiledVariable(name, val, original) ==
    [name |-> name, value |-> val, original |-> original]

\* Compiler::compile_variable
compile_variable(var) ==
    CompiledVariable(var.name, normalize_value(var.value), var.value)

RECURSIVE extract_vars_from_expr(_, _)
\* the `for arg in &f.args` of extract_vars_from_expr
RECURSIVE extract_vars_args_loop(_, _)
extract_vars_args_loop(args, vars) ==
    IF args = <<>> THEN vars
    ELSE Bind(extract_vars_from_expr(args[1], vars),
              LAMBDA pushed : extract_vars_args_loop(Tail(args), pushed))

\* Compiler::extract_vars_from_expr
extract_vars_from_expr(expr, vars) ==
    CASE expr.type = "Variable" -> Append(vars, expr.name)
      [] expr.type = "Metric" -> Append(vars, metric_as_str(expr.metric))
      [] expr.type = "Binary" ->
            Bind(extract_vars_from_expr(expr.left, vars),
                 LAMBDA pushed : extract_vars_from_expr(expr.right, pushed))
      [] expr.type = "Function" -> extract_vars_args_loop(expr.args, vars)
      [] OTHER -> vars

\* the `for part in &template.parts` of extract_template_vars
RECURSIVE extract_template_vars_loop(_, _)
extract_template_vars_loop(parts, vars) ==
    IF parts = <<>> THEN vars
    ELSE Bind(IF parts[1].part_type = "Expression"
              THEN extract_vars_from_expr(parts[1].expr, vars)
              ELSE vars,
              LAMBDA pushed : extract_template_vars_loop(Tail(parts), pushed))

\* Compiler::extract_template_vars
extract_template_vars(template) == extract_template_vars_loop(template.parts, <<>>)

CompiledAction(action_type, config, template_vars) ==
    [action_type |-> action_type, config |-> config,
     template_vars |-> template_vars]

\* Compiler::compile_action
compile_action(action) ==
    CASE action.action_type = "Notify" ->
            CompiledAction(<<"n", "o", "t", "i", "f", "y">>,
                           [message |-> action.message, channel |-> action.channel,
                            priority |-> action.priority],
                           extract_template_vars(action.message))
      [] action.action_type = "Webhook" ->
            CompiledAction(<<"w", "e", "b", "h", "o", "o", "k">>,
                           [url |-> action.url, method |-> action.method,
                            headers |-> action.headers, body |-> action.body],
                           IF IsSome(action.body)
                           THEN extract_template_vars(Unwrap(action.body))
                           ELSE <<>>)
      [] action.action_type = "Log" ->
            CompiledAction(<<"l", "o", "g">>,
                           [message |-> action.message, level |-> action.level],
                           extract_template_vars(action.message))
      [] action.action_type = "SetVariable" ->
            CompiledAction(<<"s", "e", "t", "_", "v", "a", "r", "i", "a", "b", "l", "e">>,
                           [name |-> action.name, value |-> action.value], <<>>)

RECURSIVE extract_metrics_from_expr(_, _)
\* the `for arg in &f.args` of extract_metrics_from_expr
RECURSIVE extract_metrics_args_loop(_, _)
extract_metrics_args_loop(c, args) ==
    IF args = <<>> THEN c
    ELSE Bind(extract_metrics_from_expr(c, args[1]),
              LAMBDA c1 : extract_metrics_args_loop(c1, Tail(args)))

extract_metrics_from_expr_mut(c, expr) ==
    CASE expr.type = "Metric" ->
            [c EXCEPT !.required_metrics = @ \cup {expr.metric}]
      [] expr.type = "Function" ->
            IF IsSome(expr.period_seconds)
            THEN [c EXCEPT !.max_history_seconds =
                               Max(@, Unwrap(expr.period_seconds))]
            ELSE c
      [] expr.type = "Binary" ->
            Bind(extract_metrics_from_expr(c, expr.left),
                 LAMBDA c1 : extract_metrics_from_expr(c1, expr.right))
      [] OTHER -> c

\* Compiler::extract_metrics_from_expr
extract_metrics_from_expr(c, expr) ==
    CASE expr.type = "Metric" ->
            [c EXCEPT !.required_metrics = @ \cup {expr.metric}]
      [] expr.type = "Function" ->
            Bind(extract_metrics_args_loop(c, expr.args), LAMBDA c1 :
                 IF IsSome(expr.period_seconds)
                 THEN [c1 EXCEPT !.max_history_seconds =
                                     Max(@, Unwrap(expr.period_seconds))]
                 ELSE c1)
      [] expr.type = "Binary" ->
            Bind(extract_metrics_from_expr(c, expr.left),
                 LAMBDA c1 : extract_metrics_from_expr(c1, expr.right))
      [] OTHER -> c

RECURSIVE extract_metrics_from_condition(_, _)
\* the `for cond in &log.conditions` of extract_metrics_from_condition
RECURSIVE extract_metrics_conditions_loop(_, _)
extract_metrics_conditions_loop(c, conditions) ==
    IF conditions = <<>> THEN c
    ELSE Bind(extract_metrics_from_condition(c, conditions[1]),
              LAMBDA c1 : extract_metrics_conditions_loop(c1, Tail(conditions)))

extract_metrics_from_condition_mut(c, cond) ==
    CASE cond.type = "Comparison" ->
            Bind(extract_metrics_from_expr(c, cond.left),
                 LAMBDA c1 : extract_metrics_from_expr(c1, cond.right))
      [] cond.type = "Logical" ->
            extract_metrics_conditions_loop(c, cond.conditions)
      [] cond.type = "Trend" ->
            [c EXCEPT !.required_metrics = @ \cup {cond.metric}]
      [] cond.type = "Anomaly" ->
            [c EXCEPT !.required_metrics = @ \cup {cond.metric},
                      !.max_history_seconds = Max(@, cond.period_seconds)]
      [] cond.type = "TimeWindow" -> c

\* Compiler::extract_metrics_from_condition
extract_metrics_from_condition(c, cond) ==
    CASE cond.type = "Comparison" ->
            Bind(extract_metrics_from_expr(c, cond.left),
                 LAMBDA c1 : extract_metrics_from_expr(c1, cond.right))
      [] cond.type = "Logical" ->
            extract_metrics_conditions_loop(c, cond.conditions)
      [] cond.type = "Trend" ->
            [c EXCEPT !.required_metrics = @ \cup {cond.metric},
                      !.max_history_seconds = Max(@, 3600)]
      [] cond.type = "Anomaly" ->
            [c EXCEPT !.required_metrics = @ \cup {cond.metric},
                      !.max_history_seconds = Max(@, cond.period_seconds)]
      [] cond.type = "TimeWindow" -> c

CompiledRule(id, name, rule_type, enabled, actions, cooldown_seconds) ==
    [id |-> id, name |-> name, rule_type |-> rule_type, enabled |-> enabled,
     actions |-> actions, cooldown_seconds |-> cooldown_seconds]

\* the `.map(|a| self.compile_action(a))` of the rule compilers
compile_actions(actions) ==
    [i \in 1..Len(actions) |-> compile_action(actions[i])]

\* Compiler::compile_event_rule
compile_event_rule(c, rule) ==
    [c |-> extract_metrics_from_condition(c, rule.condition),
     ret |-> CompiledRule(rule.id, rule.name,
                          [type |-> "Event", condition |-> rule.condition],
                          rule.enabled, compile_actions(rule.actions),
                          rule.cooldown_seconds)]

\* Compiler::compile_schedule_rule
compile_schedule_rule(c, rule) ==
    [c |-> c,
     ret |-> CompiledRule(rule.id, rule.name,
                          [type |-> "Schedule", schedule |-> rule.schedule],
                          rule.enabled, compile_actions(rule.actions), None)]

\* Compiler::compile_rule
compile_rule(c, rule) ==
    IF rule.rule_type = "Event" THEN compile_event_rule(c, rule)
    ELSE compile_schedule_rule(c, rule)

\* the `.map(|r| self.compile_rule(r))` of compile
RECURSIVE compile_rules_loop(_, _, _)
compile_rules_loop(c, rules, out) ==
    IF rules = <<>> THEN [c |-> c, ret |-> out]
    ELSE Bind(compile_rule(c, rules[1]), LAMBDA r :
         Bind(Append(out, r.ret), LAMBDA pushed :
              compile_rules_loop(r.c, Tail(rules), pushed)))

\* chrono_now at a system time of now_secs seconds since the epoch
chrono_now(now_secs) == Decimal(now_secs)

\* compute_checksum: the text is a function of the three values hashed
compute_checksum(program) ==
    [version |-> program.version, variables_len |-> Len(program.variables),
     rules_len |-> Len(program.rules)]

CompiledProgram(version, compiled_at, checksum, variables, rules, required_metrics, requires_history, max_history_seconds) ==
    [version |-> version, compiled_at |-> compiled_at, checksum |-> checksum,
     variables |-> variables, rules |-> rules,
     required_metrics |-> required_metrics,
     requires_history |-> requires_history,
     max_history_seconds |-> max_history_seconds]

\* the two statements under `// Reset state` of compile
reset_state(c) == [c EXCEPT !.required_metrics = {}, !.max_history_seconds = 0]

\* Compiler::compile without its reset of the state
compile_mut(c, program, now_secs, hash_order) ==
    Bind(compile_rules_loop(c, program.rules, <<>>), LAMBDA r :
        [c |-> r.c,
         ret |-> Ok(CompiledProgram(
                        program.version, chrono_now(now_secs),
                        compute_checksum(program),
                        [i \in 1..Len(program.variables) |->
                            compile_variable(program.variables[i])],
                        r.ret,
                        SelectSeq(hash_order,
                                  LAMBDA m : m \in r.c.required_metrics),
                        r.c.max_history_seconds > 0,
                        IF r.c.max_history_seconds > 0
                        THEN Some(r.c.max_history_seconds) ELSE None))])

\* Compiler::compile on the Compiler c, leaving the Compiler .c; iterating the
\* HashSet yields its elements in the order in which hash_order lists the
\* metrics
compile(c, program, now_secs, hash_order) ==
    Bind(compile_rules_loop(reset_state(c), program.rules, <<>>), LAMBDA r :
        [c |-> r.c,
         ret |-> Ok(CompiledProgram(
                        program.version, chrono_now(now_secs),
                        compute_checksum(program),
                        [i \in 1..Len(program.variables) |->
                            compile_variable(program.variables[i])],
                        r.ret,
                        SelectSeq(hash_order,
                                  LAMBDA m : m \in r.c.required_metrics),
                        r.c.max_history_seconds > 0,
                        IF r.c.max_history_seconds > 0
                        THEN Some(r.c.max_history_seconds) ELSE None))])
-----------------------------------------------------------------------------
(* dispatcher.rs: the AsyncDispatcher.  An async fn that awaits the HTTP     *)
(* client is an operator of the response that the request gets; it returns   *)
(* the requests that the client sent, in order, and the value of the fn.     *)

DispatcherConfig(telegram_bot_token, telegram_chat_id, webhook_headers, dry_run) ==
    [telegram_bot_token |-> telegram_bot_token, telegram_chat_id |-> telegram_chat_id,
     webhook_headers |-> webhook_headers, dry_run |-> dry_run]

DispatcherConfig_default == DispatcherConfig(None, None, EmptyMap, FALSE)

\* WebhookConfig::new(id, name, url) with enabled, auth and events set
WebhookConfig(id, url, enabled, auth_type, auth_token, events) ==
    [id |-> id, url |-> url, enabled |-> enabled, headers |-> EmptyMap,
     auth_type |-> auth_type, auth_token |-> auth_token, events |-> events]

DispatchResult_success(message) ==
    [success |-> TRUE, message |-> message, details |-> None,
     status_code |-> Some(200)]
DispatchResult_failure(message, details) ==
    [success |-> FALSE, message |-> message, details |-> Some(details),
     status_code |-> None]
DispatchResult_skipped(reason) ==
    [success |-> TRUE, message |-> <<"Skipped: {}", reason>>, details |-> None,
     status_code |-> None]
with_status(result, code) == [result EXCEPT !.status_code = Some(code)]

AsyncDispatcher_new(config) == [config |-> config, webhooks |-> <<>>]
with_webhooks(d, webhooks) == [d EXCEPT !.webhooks = webhooks]

\* a POST that the reqwest client sends
HttpPost(url, headers, body) == [url |-> url, headers |-> headers, body |-> body]

\* what the fn sent and what it returns
Sent(reqs, ret) == [sent |-> reqs, ret |-> ret]

\* serde_json::to_string
json_to_string(payload) == <<"json", payload>>

\* AsyncDispatcher::send_webhook_request
send_webhook_request(d, webhook, body, response) ==
    LET auth == CASE webhook.auth_type = "Bearer" /\ IsSome(webhook.auth_token) ->
                        <<<<"Authorization", <<"Bearer {}", Unwrap(webhook.auth_token)>>>>>>
                  [] webhook.auth_type = "Basic" /\ IsSome(webhook.auth_token) ->
                        <<<<"Authorization", <<"Basic {}", Unwrap(webhook.auth_token)>>>>>>
                  [] webhook.auth_type = "ApiKey" /\ IsSome(webhook.auth_token) ->
                        <<<<"X-API-Key", Unwrap(webhook.auth_token)>>>>
                  [] OTHER -> <<>>
        request == HttpPost(webhook.url,
                            <<<<"Content-Type", "application/json">>,
                              <<"User-Agent", "SEL-Server/0.1.0">>>> \o auth,
                            body)
    IN  Sent(<<request>>,
             IF ~response.ok
             THEN DispatchResult_failure(<<"Webhook error: {}", webhook.url>>,
                                         response.err)
             ELSE IF response.status >= 200 /\ response.status < 300
             THEN with_status(DispatchResult_success(
                                  <<"Webhook delivered to {}", webhook.url>>),
                              response.status)
             ELSE with_status(DispatchResult_failure(
                                  <<"Webhook failed: HTTP {}", response.status>>,
                                  response.body),
                              response.status))

WebhookDelivery(webhook, timestamp, body, delivery, duration_ms) ==
    [webhook_id |-> webhook.id, timestamp |-> timestamp, url |-> webhook.url,
     request_body |-> body, response_status |-> delivery.status_code,
     response_body |-> delivery.details, success |-> delivery.success,
     error |-> IF delivery.success THEN None ELSE Some(delivery.message),
     duration_ms |-> duration_ms]

\* the `for webhook in &self.webhooks` of dispatch_to_webhooks, from index i
\* on, with what was sent and delivered so far
RECURSIVE webhooks_loop(_, _, _, _, _, _, _)
webhooks_loop(d, event, payload, timestamp, responses, i, so_far) ==
    IF i > Len(d.webhooks) THEN so_far
    ELSE IF ~d.webhooks[i].enabled
    THEN webhooks_loop(d, event, payload, timestamp, responses, i + 1, so_far)
    ELSE IF ~\E k \in 1..Len(d.webhooks[i].events) :
                d.webhooks[i].events[k] = "All" \/ d.webhooks[i].events[k] = event
    THEN webhooks_loop(d, event, payload, timestamp, responses, i + 1, so_far)
    ELSE Bind(send_webhook_request(d, d.webhooks[i], json_to_string(payload),
                                   responses[i]),
              LAMBDA r :
             webhooks_loop(d, event, payload, timestamp, responses, i + 1,
                 Sent(so_far.sent \o r.sent,
                      Append(so_far.ret,
                             WebhookDelivery(d.webhooks[i], timestamp,
                                             json_to_string(payload), r.ret,
                                             responses[i].elapsed_ms)))))

\* AsyncDispatcher::dispatch_to_webhooks at a system time of timestamp
\* seconds, the i-th webhook's request getting responses[i]
dispatch_to_webhooks(d, event, payload, timestamp, responses) ==
    webhooks_loop(d, event, payload, timestamp, responses, 1, Sent(<<>>, <<>>))

\* AsyncDispatcher::dispatch_log
dispatch_log(d, message) ==
    Sent(<<>>, DispatchResult_success(<<"Logged: {}", message>>))

\* AsyncDispatcher::send_telegram
send_telegram(d, token, chat_id, message, response) ==
    Sent(<<HttpPost(<<"https://api.telegram.org/bot{}/sendMessage", token>>, <<>>,
                    json_to_string([chat_id |-> chat_id, text |-> message,
                                    parse_mode |-> "HTML"]))>>,
         IF ~response.ok
         THEN DispatchResult_failure(<<"Telegram request failed">>, response.err)
         ELSE IF response.status = 200
         THEN with_status(DispatchResult_success(<<"Sent to Telegram: {}", message>>),
                          response.status)
         ELSE with_status(DispatchResult_failure(
                              <<"Telegram send failed">>,
                              <<"Status: {}, Body: {}", response.status, response.body>>),
                          response.status))

\* AsyncDispatcher::dispatch_notify
dispatch_notify(d, message, response) ==
    IF IsSome(d.config.telegram_bot_token) /\ IsSome(d.config.telegram_chat_id)
    THEN send_telegram(d, Unwrap(d.config.telegram_bot_token),
                       Unwrap(d.config.telegram_chat_id), message, response)
    ELSE dispatch_log(d, message)

\* AsyncDispatcher::dispatch_webhook
dispatch_webhook(d, url, body, response) ==
    Sent(<<HttpPost(url, <<<<"Content-Type", "application/json">>>>, body)>>,
         IF ~response.ok
         THEN DispatchResult_failure(<<"Webhook error: {}", url>>, response.err)
         ELSE IF response.status >= 200 /\ response.status < 300
         THEN with_status(DispatchResult_success(<<"Webhook called: {}", url>>),
                          response.status)
         ELSE with_status(DispatchResult_failure(<<"Webhook failed: {}", url>>,
                                                 <<"Status: {}", response.status>>),
                          response.status))

\* AsyncDispatcher::dry_run_dispatch
dry_run_dispatch(d, action) ==
    Sent(<<>>,
         CASE action.type = "Notify" ->
                 DispatchResult_success(<<"[DRY RUN] Would notify: {}", action.message>>)
           [] action.type = "Webhook" ->
                 DispatchResult_success(<<"[DRY RUN] Would call webhook: {}", action.url>>)
           [] action.type = "Log" ->
                 DispatchResult_success(<<"[DRY RUN] Would log: {}", action.message>>)
           [] action.type = "Skipped" -> DispatchResult_skipped(action.reason))

\* AsyncDispatcher::dispatch, its request getting `response`
dispatch(d, action, response) ==
    IF d.config.dry_run
    THEN dry_run_dispatch(d, action)
    ELSE CASE action.type = "Notify" -> dispatch_notify(d, action.message, response)
           [] action.type = "Webhook" ->
                 dispatch_webhook(d, action.url, action.body, response)
           [] action.type = "Log" -> dispatch_log(d, action.message)
           [] action.type = "Skipped" -> Sent(<<>>, DispatchResult_skipped(action.reason))

\* the cap of a site's delivery history in record_delivery
DeliveryHistoryCap == 100

\* AppState::record_delivery with the cap checked before the push
record_delivery_before(history, site_id, delivery) ==
    LET site_history == IF site_id \in DOMAIN history THEN history[site_id] ELSE <<>>
        kept == IF Len(site_history) > DeliveryHistoryCap
                THEN SubSeq(site_history, Len(site_history) - DeliveryHistoryCap + 1,
                            Len(site_history))
                ELSE site_history
    IN  MapInsert(history, site_id, Append(kept, delivery))

\* AppState::record_delivery on the webhook_history map
record_delivery(history, site_id, delivery) ==
    LET site_history == IF site_id \in DOMAIN history THEN history[site_id] ELSE <<>>
        pushed == Append(site_history, delivery)
    IN  MapInsert(history, site_id,
                  IF Len(pushed) > DeliveryHistoryCap
                  THEN SubSeq(pushed, Len(pushed) - DeliveryHistoryCap + 1, Len(pushed))
                  ELSE pushed)
-----------------------------------------------------------------------------
(* scheduler.rs: Scheduler::next_trigger *)

day_matches_frequency(cal, d) ==
    CASE cal.frequency = "Daily" -> TRUE
      [] cal.frequency = "Weekly" ->
            IF IsSome(cal.on) THEN d.weekday = Unwrap(cal.on) ELSE d.weekday = 1
      [] cal.frequency = "Monthly" ->
            IF IsSome(cal.on) THEN d.day = Unwrap(cal.on) ELSE d.day = 1
      [] cal.frequency = "Yearly" ->
            IF IsSome(cal.on)
            THEN d.day = Unwrap(cal.on) /\ d.month = 1
            ELSE d.day = 1 /\ d.month = 1

NextTriggerDays == 366        \* for _ in 0..366 of next_calendar_trigger

\* the `for _ in 0..366` of next_calendar_trigger over its turns lo..hi: the
\* timestamp of the first turn whose day matches, found by halving the range
\* and searching the earlier half first
RECURSIVE next_calendar_loop(_, _, _, _)
next_calendar_loop(cal, next_ts, lo, hi) ==
    IF lo > hi
    THEN None
    ELSE IF lo = hi
    THEN LET checked == from_timestamp(next_ts + lo * SecondsPerDay)
         IN  IF matches_calendar(cal, checked) \/ day_matches_frequency(cal, checked)
             THEN Some(next_ts + lo * SecondsPerDay)
             ELSE None
    ELSE Bind(next_calendar_loop(cal, next_ts, lo, (lo + hi) \div 2),
              LAMBDA found :
                  IF IsSome(found) THEN found
                  ELSE next_calendar_loop(cal, next_ts, ((lo + hi) \div 2) + 1, hi))

\* next_calendar_trigger that moves to tomorrow only after the target minute
next_calendar_trigger_late(cal, now) ==
    LET target_hour == cal.at.hour
        target_minute == cal.at.minute
        today == from_timestamp(now.timestamp)
        passed == today.hour > target_hour
                  \/ (today.hour = target_hour /\ today.minute > target_minute)
        next_ts == IF passed THEN now.timestamp + SecondsPerDay ELSE now.timestamp
        checked == from_timestamp(next_ts)
        time_diff == (target_hour - checked.hour) * SecondsPerHour
                     + (target_minute - checked.minute) * SecondsPerMinute
                     - checked.second
    IN  next_calendar_loop(cal, next_ts + time_diff, 0, NextTriggerDays - 1)

next_calendar_trigger(cal, now) ==
    LET target_hour == cal.at.hour
        target_minute == cal.at.minute
        today == from_timestamp(now.timestamp)
        passed == today.hour > target_hour
                  \/ (today.hour = target_hour /\ today.minute >= target_minute)
        next_ts == IF passed THEN now.timestamp + SecondsPerDay ELSE now.timestamp
        checked == from_timestamp(next_ts)
        time_diff == (target_hour - checked.hour) * SecondsPerHour
                     + (target_minute - checked.minute) * SecondsPerMinute
                     - checked.second
    IN  next_calendar_loop(cal, next_ts + time_diff, 0, NextTriggerDays - 1)

next_trigger_mut(state, rule, now) ==
    IF ~rule.enabled
    THEN None
    ELSE CASE rule.schedule.type = "Calendar" ->
                 next_calendar_trigger(rule.schedule, now)
           [] rule.schedule.type = "Interval" ->
                 IF IsSome(last_trigger_ts(state, rule.id))
                 THEN Some(Unwrap(last_trigger_ts(state, rule.id))
                           + rule.schedule.interval_seconds)
                 ELSE Some(now.timestamp)
           [] rule.schedule.type = "Cron" -> Some(now.timestamp)

next_trigger(state, rule, now) ==
    IF ~rule.enabled
    THEN None
    ELSE CASE rule.schedule.type = "Calendar" ->
                 next_calendar_trigger(rule.schedule, now)
           [] rule.schedule.type = "Interval" ->
                 IF IsSome(last_trigger_ts(state, rule.id))
                 THEN Some(Unwrap(last_trigger_ts(state, rule.id))
                           + rule.schedule.interval_seconds)
                 ELSE Some(now.timestamp)
           [] rule.schedule.type = "Cron" -> None

-----------------------------------------------------------------------------
(* The scheduler's callers: rules and wall-clock instants *)

\* days since the epoch: Thu 1970-01-01, Mon 01-05, Sun 02-01, Fri 1971-01-01
WallDays == {0, 4, 31, 365}
\* seconds into the day: 00:00:00, 00:01:00, 00:01:30
WallTimes == {0, 60, 90}
WallSamples == {d * SecondsPerDay + t : d \in WallDays, t \in WallTimes}

CalendarFrequencies == {"Daily", "Weekly", "Monthly", "Yearly"}
AtSamples == {[hour |-> 0, minute |-> 1]}
OnSamples == {None, Some(5)}

CalendarRuleSamples ==
    {ScheduleRule(RuleIdOf(1), None, CalendarSchedule(f, at, on), <<>>, TRUE) :
        f \in CalendarFrequencies, at \in AtSamples, on \in OnSamples}

ScheduleRuleSamples ==
    CalendarRuleSamples
    \cup {ScheduleRule(RuleIdOf(1), None,
                       CalendarSchedule("Daily", [hour |-> 0, minute |-> 0], None),
                       <<>>, TRUE),
          ScheduleRule(RuleIdOf(1), None,
                       CalendarSchedule("Daily", [hour |-> 0, minute |-> 0], None),
                       <<>>, FALSE),
          ScheduleRule(RuleIdOf(1), None, IntervalSchedule(60), <<>>, TRUE),
          ScheduleRule(RuleIdOf(1), None, IntervalSchedule(60), <<>>, FALSE),
          ScheduleRule(RuleIdOf(1), None, CronSchedule(<<"*">>), <<>>, TRUE)}

\* the rules next_trigger is asked about: all but the Monthly and Yearly ones
NextTriggerRuleSamples ==
    {r \in ScheduleRuleSamples :
        r.schedule.type = "Calendar" => r.schedule.frequency \in {"Daily", "Weekly"}}

ScheduleRuleIds == {r.id : r \in ScheduleRuleSamples}

-----------------------------------------------------------------------------
(* The scheduler as a state machine *)

\* the Scheduler's ScheduleState as a value
TheScheduler ==
    [last_triggered |-> sched_last_triggered,
     last_triggered_ts |-> sched_last_triggered_ts]

sched_vars == <<sched_last_triggered, sched_last_triggered_ts, sched_ret, sched_mark>>
dt_vars == <<dt_ts, dt>>
rt_vars == <<runtime, rt_ret, rt_mark, rt_tn>>
fe_vars == <<parser, compiled>>
co_vars == <<compiler, compiler_ret>>
srv_vars == <<server, runtimes_lock, store, requests>>
chk_vars == <<schedulers, checks>>
dsp_vars == <<dispatcher, outbox, dsp_ret, webhook_history>>
vars == <<clock, wall, wall_millis, sched_vars, dt_vars, rt_vars, fe_vars, co_vars, srv_vars, chk_vars, dsp_vars>>

\* what the scheduler leaves alone
sched_frame == <<wall_millis, dt_vars, rt_vars, fe_vars, co_vars, dsp_vars, srv_vars, chk_vars>>

SchedInit ==
    /\ sched_last_triggered = EmptyMap        \* ScheduleState::new
    /\ sched_last_triggered_ts = EmptyMap
    /\ sched_ret = None
    /\ sched_mark = None

DtInit ==
    /\ dt_ts = 0
    /\ dt = None

RtInit ==
    /\ runtime = Runtime_new
    /\ rt_ret = None
    /\ rt_mark = None
    /\ rt_tn = None

FeInit ==
    /\ parser = [state |-> "Idle"]
    /\ compiled = None

CoInit ==
    /\ compiler = [required_metrics |-> {}, max_history_seconds |-> 0]   \* Compiler::new
    /\ compiler_ret = None

\* AsyncDispatcher::new(DispatcherConfig::default()), a client that has sent
\* nothing, and the webhook_history of AppState::new
DspInit ==
    /\ dispatcher = AsyncDispatcher_new(DispatcherConfig_default)
    /\ outbox = <<>>
    /\ dsp_ret = None
    /\ webhook_history = EmptyMap

MaxRequests == 2
EvaluateRequests == 1..MaxRequests
MaxChecks == 2
CheckRequests == 1..MaxChecks

\* AppState::new; its schedulers are the variable of that name, and the
\* webhooks and their history are maps that no handler modelled here reads
\* built_for is history: the program that each site's Runtime was made from
AppState_new ==
    [programs |-> EmptyMap, runtimes |-> EmptyMap, built_for |-> EmptyMap]

SrvInit ==
    /\ server = AppState_new
    /\ runtimes_lock = None
    /\ store = None
    /\ requests = [req \in EvaluateRequests |-> [pc |-> "idle"]]
    /\ schedulers = EmptyMap
    /\ checks = [req \in CheckRequests |-> [pc |-> "idle"]]

\* monotonic time passes
Tick ==
    /\ clock + ClockStep <= MaxClock
    /\ clock' = clock + ClockStep
    /\ sched_ret' = None
    /\ UNCHANGED <<wall, sched_last_triggered, sched_last_triggered_ts, sched_mark>>
    /\ UNCHANGED sched_frame

\* wall-clock time passes
WallAdvance ==
    /\ \E t \in WallSamples : t > wall /\ wall' = t
    /\ sched_ret' = None
    /\ UNCHANGED <<clock, sched_last_triggered, sched_last_triggered_ts, sched_mark>>
    /\ UNCHANGED sched_frame

\* Scheduler::should_trigger(rule, &DateTime::from_timestamp(wall))
ShouldTrigger(rule) ==
    /\ sched_ret' = Some([op |-> "should_trigger", rule |-> rule,
                          ret |-> should_trigger(TheScheduler, rule, from_timestamp(wall))])
    /\ UNCHANGED <<clock, wall, sched_last_triggered, sched_last_triggered_ts, sched_mark>>
    /\ UNCHANGED sched_frame

\* Scheduler::check_interval(TheScheduler, rule, wall)
CheckInterval(rule) ==
    /\ sched_ret' = Some([op |-> "check_interval", rule |-> rule,
                          ret |-> check_interval(TheScheduler, rule, wall)])
    /\ UNCHANGED <<clock, wall, sched_last_triggered, sched_last_triggered_ts, sched_mark>>
    /\ UNCHANGED sched_frame

\* Scheduler::next_trigger(rule, &DateTime::from_timestamp(wall))
NextTrigger(rule) ==
    /\ sched_ret' = Some([op |-> "next_trigger", rule |-> rule,
                          ret |-> next_trigger(TheScheduler, rule, from_timestamp(wall))])
    /\ UNCHANGED <<clock, wall, sched_last_triggered, sched_last_triggered_ts, sched_mark>>
    /\ UNCHANGED sched_frame

\* ScheduleState::record_trigger(rule_id, timestamp); Instant::now() is clock
record_trigger(state, rule_id, timestamp) ==
    [last_triggered |-> MapInsert(state.last_triggered, rule_id, clock),
     last_triggered_ts |-> MapInsert(state.last_triggered_ts, rule_id, timestamp)]

\* record_trigger on the Scheduler
Recorded(rule_id, timestamp) ==
    /\ sched_last_triggered'
          = record_trigger(TheScheduler, rule_id, timestamp).last_triggered
    /\ sched_last_triggered_ts'
          = record_trigger(TheScheduler, rule_id, timestamp).last_triggered_ts
    /\ sched_mark' \in {sched_mark, Some([id |-> rule_id, ts |-> timestamp])}

\* Scheduler::record_trigger(rule_id, wall)
RecordTrigger(rule_id) ==
    /\ Recorded(rule_id, wall)
    /\ sched_ret' = None
    /\ UNCHANGED <<clock, wall>>
    /\ UNCHANGED sched_frame

\* `let should_trigger = match &schedule_rule.schedule` of check_schedules
rule_should_trigger(state, rule, timestamp) ==
    IF rule.schedule.type = "Interval"
    THEN check_interval(state, rule, timestamp)
    ELSE should_trigger(state, rule, from_timestamp(timestamp))

\* the body of the rule loop of check_schedules: the decision, and
\* record_trigger after a true one
CheckSchedule(rule) ==
    LET ret == rule_should_trigger(TheScheduler, rule, wall)
    IN  /\ sched_ret' = Some([op |-> "check_schedules", rule |-> rule,
                              ret |-> ret])
        /\ IF ret
           THEN Recorded(rule.id, wall)
           ELSE UNCHANGED <<sched_last_triggered, sched_last_triggered_ts, sched_mark>>
        /\ UNCHANGED <<clock, wall>>
        /\ UNCHANGED sched_frame

SchedulerNext ==
    \/ Tick
    \/ WallAdvance
    \/ \E rule \in ScheduleRuleSamples : ShouldTrigger(rule)
    \/ \E rule \in ScheduleRuleSamples : CheckInterval(rule)
    \/ \E rule \in NextTriggerRuleSamples : NextTrigger(rule)
    \/ \E id \in ScheduleRuleIds : RecordTrigger(id)
    \/ \E rule \in ScheduleRuleSamples : CheckSchedule(rule)

SchedulerInit ==
    /\ clock = 0 /\ wall \in WallSamples /\ wall_millis = 0
    /\ SchedInit /\ DtInit /\ RtInit /\ FeInit /\ CoInit /\ DspInit /\ SrvInit

SpecScheduler == SchedulerInit /\ [][SchedulerNext]_vars

-----------------------------------------------------------------------------
(* DateTime::from_timestamp applied to one input *)

\* seconds into the day: the ends of a minute, of an hour and of the day
DtSeconds == {0, 59, 60, 3599, 3600, 86399}
DtSamples == {d * SecondsPerDay + t : d \in 0..MaxDay, t \in DtSeconds}

FromTimestamp ==
    /\ dt = None
    /\ dt' = Some(from_timestamp(dt_ts))
    /\ UNCHANGED <<dt_ts, clock, wall, wall_millis, sched_vars, rt_vars, fe_vars, co_vars, dsp_vars, srv_vars, chk_vars>>

DateTimeInit ==
    /\ clock = 0 /\ wall = 0 /\ wall_millis = 0 /\ SchedInit /\ RtInit /\ FeInit /\ CoInit /\ DspInit /\ SrvInit
    /\ dt_ts \in DtSamples /\ dt = None

DateTimeNext == FromTimestamp

SpecDateTime == DateTimeInit /\ [][DateTimeNext]_vars

-----------------------------------------------------------------------------
(* A new Scheduler asked for the next trigger of calendar rules of every     *)
(* frequency                                                                 *)

\* days since the epoch: Thu 1970-01-01, Mon 01-05, Fri 1971-01-01
NextWallDays == {0, 4, 365}
\* seconds into the day: 00:00:00, 00:01:00, 00:01:30, 08:30:00
NextWallTimes == {0, 60, 90, 30600}
NextWallSamples == {d * SecondsPerDay + t : d \in NextWallDays, t \in NextWallTimes}

NextAtSamples == {[hour |-> 0, minute |-> 1], [hour |-> 8, minute |-> 30]}
NextOnSamples == {None, Some(5), Some(31)}

NextRuleSamples ==
    {ScheduleRule(RuleIdOf(1), None, CalendarSchedule(f, at, on), <<>>, enabled) :
        f \in CalendarFrequencies, at \in NextAtSamples, on \in NextOnSamples,
        enabled \in {TRUE}}
    \cup {ScheduleRule(RuleIdOf(1), None,
                       CalendarSchedule("Daily", [hour |-> 0, minute |-> 1], None),
                       <<>>, FALSE)}

NextWallAdvance ==
    /\ \E t \in NextWallSamples : t > wall /\ wall' = t
    /\ sched_ret' = None
    /\ UNCHANGED <<clock, sched_last_triggered, sched_last_triggered_ts, sched_mark>>
    /\ UNCHANGED sched_frame

NextTriggerInit ==
    /\ clock = 0 /\ wall = 0 /\ wall_millis = 0
    /\ SchedInit /\ DtInit /\ RtInit /\ FeInit /\ CoInit /\ DspInit /\ SrvInit

NextTriggerNext ==
    \/ NextWallAdvance
    \/ \E rule \in NextRuleSamples : NextTrigger(rule)

SpecNextTrigger == NextTriggerInit /\ [][NextTriggerNext]_vars
-----------------------------------------------------------------------------
(* The runtime's callers: snapshots, rules and a program *)

Snapshot(pairs) ==
    [m \in Metrics |-> IF m \in DOMAIN pairs THEN Some(pairs[m]) ELSE None]

SnapshotEmpty == DefaultMetricValues
SnapshotLow == Snapshot([m \in {"BatterySoc"} |-> F(15)])
SnapshotHigh ==
    Snapshot([m \in {"BatterySoc", "PvPower"} |->
                 IF m = "BatterySoc" THEN F(50) ELSE F(1500)])
RtSnapshots == {SnapshotEmpty, SnapshotLow, SnapshotHigh}
\* the snapshots that the runtime's callers record
RtRecorded == {SnapshotHigh}

TextLow == <<"L", "o", "w">>
NameThreshold == <<"t", "h", "r", "e", "s", "h", "o", "l", "d">>
UrlHook == <<"h", "t", "t", "p", ":", "/", "/", "h">>

\* battery_soc < 20%
ConditionLowSoc ==
    ComparisonCondition(MetricExpr("BatterySoc"), "LessThan",
                        LiteralExpr(ValuePercent(F(20))))
\* battery_soc is falling OR AVG(pv_power, 1hour) > $threshold
ConditionFallingOrSunny ==
    LogicalCondition("Or",
        <<TrendCondition("BatterySoc", "Falling", None),
          ComparisonCondition(
              FunctionCall("Avg", <<MetricExpr("PvPower")>>, Some(3600)),
              "GreaterThan", VariableRef(NameThreshold))>>)

RuleLow(enabled) ==
    EventRule(RuleIdOf(1), None, ConditionLowSoc,
              <<NotifyAction(from_literal(TextLow), None, None)>>,
              Some(60), enabled)
RuleSunny ==
    EventRule(RuleIdOf(2), None, ConditionFallingOrSunny,
              <<WebhookAction(UrlHook, None, None, None)>>, None, TRUE)

RtRuleSamples == {RuleLow(TRUE), RuleLow(FALSE), RuleSunny}

RtProgram ==
    Program(<<"1", ".", "0">>,
            <<Variable(NameThreshold, ValuePower(F(1000)))>>,
            <<RuleLow(TRUE), RuleSunny>>)
\* the same rules between schedule rules, one of them under the id of the
\* first event rule
RtProgramMixed ==
    Program(<<"1", ".", "0">>,
            <<Variable(NameThreshold, ValuePower(F(1000)))>>,
            <<ScheduleRule(RuleIdOf(1), None, IntervalSchedule(60),
                           <<LogAction(from_literal(TextLow), None)>>, TRUE),
              RuleLow(TRUE),
              ScheduleRule(RuleIdOf(3), None,
                           CalendarSchedule("Daily", [hour |-> 0, minute |-> 0], None),
                           <<NotifyAction(from_literal(TextLow), None, None)>>, TRUE),
              RuleSunny>>)
RtProgramSamples == {RtProgram, RtProgramMixed}

\* a program that declares the threshold twice
RtProgramTwice ==
    Program(<<"1", ".", "0">>,
            <<Variable(NameThreshold, ValuePower(F(500))),
              Variable(NameThreshold, ValuePower(F(1000)))>>,
            <<>>)
\* the programs whose variables the runtime's callers load
RtLoadedSamples == RtProgramSamples \cup {RtProgramTwice}

\* SystemTime instants of the runtime's callers, Unix seconds
RtWallSamples == {0, 3601}

-----------------------------------------------------------------------------
(* The runtime as a state machine *)

\* what the runtime leaves alone
rt_frame == <<wall_millis, sched_vars, dt_vars, fe_vars, co_vars, dsp_vars, srv_vars, chk_vars>>

\* SystemTime::now() as milliseconds since the epoch
WallMs == wall * 1000 + wall_millis

RtTick ==
    /\ clock + ClockStep <= MaxClock
    /\ clock' = clock + ClockStep
    /\ rt_ret' = None
    /\ UNCHANGED <<wall, runtime, rt_mark, rt_tn>>
    /\ UNCHANGED rt_frame

RtWallAdvance ==
    /\ \E t \in RtWallSamples : t > wall /\ wall' = t
    /\ rt_ret' = None
    /\ UNCHANGED <<clock, runtime, rt_mark, rt_tn>>
    /\ UNCHANGED rt_frame

\* Runtime::load_variables(program)
LoadVariables(program) ==
    /\ runtime' = load_variables(runtime, program)
    /\ rt_ret' = Some([op |-> "load_variables", program |-> program])
    /\ UNCHANGED <<clock, wall, rt_mark, rt_tn>>
    /\ UNCHANGED rt_frame

HistoryLen(history, metric) ==
    IF metric \in DOMAIN history.data THEN Len(history.data[metric]) ELSE 0

\* Runtime::record_history(metrics, timestamp_ms), timestamps never decreasing
RecordHistory(metrics, timestamp_ms) ==
    /\ \A m \in Metrics : HistoryLen(runtime.history, m) < MaxHistoryLen
    /\ IsSome(rt_tn) => timestamp_ms >= Unwrap(rt_tn)
    /\ runtime' = record_history(runtime, metrics, timestamp_ms)
    /\ rt_tn' = Some(timestamp_ms)
    /\ rt_ret' = Some([op |-> "record_history"])
    /\ UNCHANGED <<clock, wall, rt_mark>>
    /\ UNCHANGED rt_frame

\* Runtime::evaluate_event_rule(rule, metrics)
EvaluateEventRule(rule, metrics) ==
    \E r \in {evaluate_event_rule(runtime, rule, metrics, clock, WallMs)} :
    LET triggered == r.ret.ok /\ r.ret.v.triggered
    IN  /\ runtime' = r.rt
        /\ \E mark \in {rt_mark} \cup
                       (IF triggered THEN {Some([rule |-> rule, at |-> clock])}
                                     ELSE {}) :
              /\ rt_mark' = mark
              /\ rt_ret' = Some([op |-> "evaluate_event_rule", rule |-> rule,
                                 metrics |-> metrics, ret |-> r.ret,
                                 later |-> mark = rt_mark])
        /\ UNCHANGED <<clock, wall, rt_tn>>
        /\ UNCHANGED rt_frame

\* the rules that an evaluate_all reported as triggered
TriggeredRules(program, ret) ==
    IF ret.ok
    THEN {rule \in {program.rules[i] : i \in 1..Len(program.rules)} :
             /\ rule.rule_type = "Event"
             /\ \E j \in 1..Len(ret.v) :
                   ret.v[j].rule_id = rule.id /\ ret.v[j].triggered}
    ELSE {}

\* Runtime::evaluate_all(program, metrics)
EvaluateAll(program, metrics) ==
    \E r \in {evaluate_all(runtime, program, metrics, clock, WallMs)} :
        /\ runtime' = r.rt
        /\ rt_mark' \in {rt_mark} \cup
                        {Some([rule |-> rule, at |-> clock]) :
                            rule \in TriggeredRules(program, r.ret)}
        /\ rt_ret' = Some([op |-> "evaluate_all", program |-> program,
                           metrics |-> metrics, ret |-> r.ret])
        /\ UNCHANGED <<clock, wall, rt_tn>>
        /\ UNCHANGED rt_frame

RuntimeInit ==
    /\ clock = 0 /\ wall = 0 /\ wall_millis = 0
    /\ SchedInit /\ DtInit /\ RtInit /\ FeInit /\ CoInit /\ DspInit /\ SrvInit

RuntimeNext ==
    \/ RtTick
    \/ RtWallAdvance
    \/ \E program \in RtLoadedSamples : LoadVariables(program)
    \/ \E metrics \in RtRecorded : RecordHistory(metrics, WallMs)
    \/ \E rule \in RtRuleSamples, metrics \in RtSnapshots :
          EvaluateEventRule(rule, metrics)
    \/ \E program \in RtProgramSamples, metrics \in RtSnapshots :
          EvaluateAll(program, metrics)

SpecRuntime == RuntimeInit /\ [][RuntimeNext]_vars

-----------------------------------------------------------------------------
(* Runtime::record_history under callers that pass any non-decreasing        *)
(* timestamps and any of these snapshots                                     *)

\* milliseconds: 0 s, 1 s, seven days, seven days and 1 s
HistTimes == {0, 1000, DefaultMaxAgeSeconds * 1000, DefaultMaxAgeSeconds * 1000 + 1000}
SnapshotPv == Snapshot([m \in {"PvPower"} |-> F(1)])
HistSnapshots == {SnapshotEmpty, SnapshotLow, SnapshotHigh, SnapshotPv}

HistoryInit ==
    /\ clock = 0 /\ wall = 0 /\ wall_millis = 0
    /\ SchedInit /\ DtInit /\ RtInit /\ FeInit /\ CoInit /\ DspInit /\ SrvInit

HistoryNext ==
    \E metrics \in HistSnapshots, timestamp_ms \in HistTimes :
        RecordHistory(metrics, timestamp_ms)

SpecHistory == HistoryInit /\ [][HistoryNext]_vars

-----------------------------------------------------------------------------
(* A new Runtime under callers that record history and evaluate a program    *)
(* whose event rules all have a bare trend as their condition                *)

\* ON battery_soc RISING NOTIFY 'Low'
\* ON battery_soc FALLING WEBHOOK 'http://h' COOLDOWN 60s
\* EVERY 60s LOG 'Low'
\* ON pv_power STABLE NOTIFY 'Low'
TrendProgram ==
    Program(<<"1", ".", "0">>, <<>>,
            <<EventRule(RuleIdOf(1), None, TrendCondition("BatterySoc", "Rising", None),
                        <<NotifyAction(from_literal(TextLow), None, None)>>,
                        None, TRUE),
              EventRule(RuleIdOf(2), None, TrendCondition("BatterySoc", "Falling", None),
                        <<WebhookAction(UrlHook, None, None, None)>>,
                        Some(60), TRUE),
              ScheduleRule(RuleIdOf(3), None, IntervalSchedule(60),
                           <<LogAction(from_literal(TextLow), None)>>, TRUE),
              EventRule(RuleIdOf(4), None, TrendCondition("PvPower", "Stable", None),
                        <<NotifyAction(from_literal(TextLow), None, None)>>,
                        None, TRUE)>>)

TrendNext ==
    \/ RtTick
    \/ RtWallAdvance
    \/ LoadVariables(TrendProgram)
    \/ \E metrics \in RtSnapshots : RecordHistory(metrics, WallMs)
    \/ \E metrics \in RtSnapshots : EvaluateAll(TrendProgram, metrics)

SpecTrend == RuntimeInit /\ [][TrendNext]_vars


-----------------------------------------------------------------------------
(* A new Runtime under callers that evaluate single rules: one comparison    *)
(* rule, and rules whose condition is a trend in each direction, with and    *)
(* without a threshold                                                        *)

SnapshotMid == Snapshot([m \in {"BatterySoc"} |-> F(25)])
DirectionSnapshots == RtSnapshots \cup {SnapshotMid}

TrendDirections == {"Rising", "Falling", "Stable"}
TrendThresholds == {None, Some(F(10))}

DirectionRule(metric, direction, threshold) ==
    EventRule(RuleIdOf(2), None, TrendCondition(metric, direction, threshold),
              <<LogAction(from_literal(TextLow), None)>>, None, TRUE)

DirectionRules ==
    {DirectionRule("BatterySoc", direction, threshold) :
        direction \in TrendDirections, threshold \in TrendThresholds}
    \cup {DirectionRule("PvPower", "Stable", None)}

DirectionNext ==
    \/ LoadVariables(RtProgram)
    \/ \E rule \in DirectionRules \cup {RuleLow(TRUE)}, metrics \in DirectionSnapshots :
          EvaluateEventRule(rule, metrics)

SpecDirection == RuntimeInit /\ [][DirectionNext]_vars

-----------------------------------------------------------------------------
(* A Runtime under callers that load the threshold, record history and       *)
(* evaluate single rules whose condition is an AND, an OR or a NOT over a    *)
(* comparison of the snapshot and a comparison that needs the threshold and  *)
(* recorded history                                                           *)

\* AVG(pv_power, 1hour) > $threshold
ConditionSunny ==
    ComparisonCondition(FunctionCall("Avg", <<MetricExpr("PvPower")>>, Some(3600)),
                        "GreaterThan", VariableRef(NameThreshold))

LogicalRule(operator, conditions) ==
    EventRule(RuleIdOf(2), None, LogicalCondition(operator, conditions),
              <<LogAction(from_literal(TextLow), None)>>, None, TRUE)

LogicalRules ==
    {LogicalRule(operator, conditions) :
        operator \in {"And", "Or", "Not"},
        conditions \in {<<ConditionLowSoc, ConditionSunny>>,
                        <<ConditionSunny, ConditionLowSoc>>}}
    \cup {LogicalRule("Not", <<>>)}

LogicalNext ==
    \/ LoadVariables(RtProgram)
    \/ RecordHistory(SnapshotHigh, WallMs)
    \/ \E rule \in LogicalRules, metrics \in {SnapshotLow, SnapshotHigh} :
          EvaluateEventRule(rule, metrics)

SpecLogical == RuntimeInit /\ [][LogicalNext]_vars

-----------------------------------------------------------------------------
(* A Runtime under callers that record pv_power samples and evaluate a rule  *)
(* over their PERCENTILE                                                      *)

\* PERCENTILE(pv_power, 1hour) > 1000W
ConditionPercentile ==
    ComparisonCondition(FunctionCall("Percentile", <<MetricExpr("PvPower")>>,
                                     Some(3600)),
                        "GreaterThan", LiteralExpr(ValuePower(F(1000))))

RulePercentile ==
    EventRule(RuleIdOf(2), None, ConditionPercentile,
              <<LogAction(from_literal(TextLow), None)>>, None, TRUE)

PercentileNext ==
    \/ RtWallAdvance
    \/ \E metrics \in {SnapshotPv, SnapshotHigh} : RecordHistory(metrics, WallMs)
    \/ \E metrics \in {SnapshotEmpty, SnapshotPv, SnapshotHigh} :
          EvaluateEventRule(RulePercentile, metrics)

SpecPercentile == RuntimeInit /\ [][PercentileNext]_vars
-----------------------------------------------------------------------------
(* The front end as a state machine: lib.rs parse(source), whose rules take  *)
(* their ids from the system clock while it runs, and Compiler::compile      *)

MaxMillis == 1

\* what the front end leaves alone
fe_frame == <<clock, wall, sched_vars, dt_vars, rt_vars, co_vars, dsp_vars, srv_vars, chk_vars>>

\* a numeral and the number of tenths it denotes
Numeral(whole, tenths) ==
    [text |-> Decimal(whole)
              \o (IF tenths = None THEN <<>> ELSE <<".">> \o Decimal(Unwrap(tenths))),
     tenths |-> whole * 10 + (IF tenths = None THEN 0 ELSE Unwrap(tenths))]

NumeralSamples ==
    {Numeral(1, None), Numeral(2, None), Numeral(1, Some(5)), Numeral(0, Some(5))}

PowerUnits == {<<"W">>, <<"k", "W">>, <<"M", "W">>}
EnergyUnits == {<<"W", "h">>, <<"k", "W", "h">>, <<"M", "W", "h">>}
DurationUnits == {<<"s">>, <<"m", "i", "n">>, <<"h", "o", "u", "r">>, <<"d", "a", "y">>, <<"w", "e", "e", "k">>}

\* the number of base units (watts, watt-hours, seconds) in one of the unit
UnitFactor(unit) ==
    CASE unit \in {<<"W">>, <<"W", "h">>, <<"s">>} -> 1
      [] unit \in {<<"k", "W">>, <<"k", "W", "h">>} -> 1000
      [] unit \in {<<"M", "W">>, <<"M", "W", "h">>} -> 1000000
      [] unit = <<"m", "i", "n">> -> 60
      [] unit = <<"h", "o", "u", "r">> -> 3600
      [] unit = <<"d", "a", "y">> -> 86400
      [] unit = <<"w", "e", "e", "k">> -> 604800

\* the literals whose value is a whole number of seconds when a duration
LiteralSamples ==
    {lit \in [numeral : NumeralSamples,
              unit : PowerUnits \cup EnergyUnits \cup DurationUnits] :
        lit.unit \in DurationUnits
            => (lit.numeral.tenths * UnitFactor(lit.unit)) % 10 = 0}
    \cup {[numeral |-> Numeral(30, None), unit |-> <<"m", "i", "n">>]}

\* the declaration of a variable with a literal as its value
LiteralSource(lit) == <<"$", "x", " ", "=", " ">> \o lit.numeral.text \o lit.unit

LiteralSources == {LiteralSource(lit) : lit \in LiteralSamples}

\* ON battery_soc < 20%
\*   NOTIFY 'Low'
\*   COOLDOWN 5min
\* ON pv_power > 3kW
\*   WEBHOOK 'http://h'
SourceTwoRules ==
    <<"O", "N", " ", "b", "a", "t", "t", "e", "r", "y", "_", "s", "o", "c", " ", "<", " ", "2", "0", "%", "\n", " ", " ", "N", "O", "T", "I", "F", "Y", " ", "'", "L", "o", "w", "'", "\n", " ", " ", "C", "O", "O", "L", "D", "O", "W", "N", " ", "5", "m", "i", "n", "\n", "O", "N", " ", "p", "v", "_", "p", "o", "w", "e", "r", " ", ">", " ", "3", "k", "W", "\n", " ", " ", "W", "E", "B", "H", "O", "O", "K", " ", "'", "h", "t", "t", "p", ":", "/", "/", "h", "'", "\n">>

\* $t = 20%
\* ON AVG(pv_power, 1hour) > battery_power + $t NOTIFY 'x'
SourceAggregate ==
    <<"$", "t", " ", "=", " ", "2", "0", "%", "\n", "O", "N", " ", "A", "V", "G", "(", "p", "v", "_", "p", "o", "w", "e", "r", ",", " ", "1", "h", "o", "u", "r", ")", " ", ">", " ", "b", "a", "t", "t", "e", "r", "y", "_", "p", "o", "w", "e", "r", " ", "+", " ", "$", "t", " ", "N", "O", "T", "I", "F", "Y", " ", "'", "x", "'">>

SourceZeroPeriod == <<"O", "N", " ", "A", "V", "G", "(", "p", "v", "_", "p", "o", "w", "e", "r", ",", " ", "0", "s", ")", " ", ">", " ", "1", "k", "W", " ", "N", "O", "T", "I", "F", "Y", " ", "'", "x", "'">>
SourceTwoArgs == <<"O", "N", " ", "M", "A", "X", "(", "g", "r", "i", "d", "_", "i", "m", "p", "o", "r", "t", ",", " ", "g", "r", "i", "d", "_", "e", "x", "p", "o", "r", "t", ")", " ", ">", " ", "0", " ", "N", "O", "T", "I", "F", "Y", " ", "'", "x", "'">>
SourceTrend == <<"O", "N", " ", "g", "r", "i", "d", "_", "p", "o", "w", "e", "r", " ", "R", "I", "S", "I", "N", "G", " ", "N", "O", "T", "I", "F", "Y", " ", "'", "r", "'">>
SourceAnomaly ==
    <<"O", "N", " ", "g", "r", "i", "d", "_", "p", "o", "w", "e", "r", " ", ">", " ", "0", " ", "O", "R", " ", "N", "O", "T", " ", "(", "l", "o", "a", "d", "_", "p", "o", "w", "e", "r", " ", "I", "S", " ", "U", "N", "U", "S", "U", "A", "L", " ", "C", "O", "M", "P", "A", "R", "E", "D", " ", "T", "O", " ", "1", "d", "a", "y", ")">>
SourceZeroAnomaly == <<"O", "N", " ", "b", "a", "t", "t", "e", "r", "y", "_", "s", "o", "c", " ", "I", "S", " ", "U", "N", "U", "S", "U", "A", "L", " ", "C", "O", "M", "P", "A", "R", "E", "D", " ", "T", "O", " ", "0", "s">>

\* # morning
\* EVERY monday AT 08:30 NOTIFY 'w'
\* EVERY day AT 7:00
\*   NOTIFY 'd'
SourceSchedules ==
    <<"#", " ", "m", "o", "r", "n", "i", "n", "g", "\n", "E", "V", "E", "R", "Y", " ", "m", "o", "n", "d", "a", "y", " ", "A", "T", " ", "0", "8", ":", "3", "0", " ", "N", "O", "T", "I", "F", "Y", " ", "'", "w", "'", "\n", "E", "V", "E", "R", "Y", " ", "d", "a", "y", " ", "A", "T", " ", "7", ":", "0", "0", "\n", " ", " ", "N", "O", "T", "I", "F", "Y", " ", "'", "d", "'">>

SourcePlaceholder == <<"O", "N", " ", "p", "v", "_", "p", "o", "w", "e", "r", " ", ">", " ", "1", "k", "W", " ", "/", "/", " ", "s", "u", "n", "\n", " ", " ", "N", "O", "T", "I", "F", "Y", " ", "'", "S", "o", "c", " ", "{", "b", "a", "t", "t", "e", "r", "y", "_", "s", "o", "c", "}", "'">>
SourceNoOperand == <<"O", "N", " ", "b", "a", "t", "t", "e", "r", "y", "_", "s", "o", "c", " ", "<">>
SourceOpenString == <<"O", "N", " ", "p", "v", "_", "p", "o", "w", "e", "r", " ", ">", " ", "0", " ", "N", "O", "T", "I", "F", "Y", " ", "'", "x">>

\* $t=20%
\* ON battery_soc < $t
\*   NOTIFY "Low: {battery_soc}%"
SourceLowBattery ==
    <<"$", "t", "=", "2", "0", "%", "\n", "O", "N", " ", "b", "a", "t", "t", "e", "r", "y", "_", "s", "o", "c", " ", "<", " ", "$", "t", "\n", " ", " ", "N", "O", "T", "I", "F", "Y", " ", "\"", "L", "o", "w", ":", " ", "{", "b", "a", "t", "t", "e", "r", "y", "_", "s", "o", "c", "}", "%", "\"">>

\* $x = 1
\* $x = 2
SourceTwoVariables == <<"$", "x", " ", "=", " ", "1", "\n", "$", "x", " ", "=", " ", "2">>

\* ON AVG(pv_power, 1day) > 1kW AND battery_soc IS UNUSUAL COMPARED TO 1min NOTIFY 'x'
\* ON grid_power RISING NOTIFY 'r'
SourceHistory ==
    <<"O", "N", " ", "A", "V", "G", "(", "p", "v", "_", "p", "o", "w", "e", "r", ",", " ", "1", "d", "a", "y", ")", " ", ">", " ", "1", "k", "W", " ", "A", "N", "D", " ", "b", "a", "t", "t", "e", "r", "y", "_", "s", "o", "c", " ", "I", "S", " ", "U", "N", "U", "S", "U", "A", "L", " ", "C", "O", "M", "P", "A", "R", "E", "D", " ", "T", "O", " ", "1", "m", "i", "n", " ", "N", "O", "T", "I", "F", "Y", " ", "'", "x", "'", "\n", "O", "N", " ", "g", "r", "i", "d", "_", "p", "o", "w", "e", "r", " ", "R", "I", "S", "I", "N", "G", " ", "N", "O", "T", "I", "F", "Y", " ", "'", "r", "'">>

SourceShortPeriod == <<"O", "N", " ", "M", "I", "N", "(", "p", "v", "_", "p", "o", "w", "e", "r", ",", " ", "1", "m", "i", "n", ")", " ", ">", " ", "0", " ", "A", "N", "D", " ", "g", "r", "i", "d", "_", "p", "o", "w", "e", "r", " ", "R", "I", "S", "I", "N", "G", " ", "N", "O", "T", "I", "F", "Y", " ", "'", "x", "'">>

\* the ways in which Lexer::tokenize fails: the text at which it fails, the
\* message of the error, and texts that may follow the failing position
LexerOffence(at, message, rest) == [at |-> at, message |-> message, rest |-> rest]

LexerOffences ==
    {LexerOffence(<<"@">>, "Unexpected character '{}'", r) :
        r \in {<<>>, <<"@", " ", "2", "0", "%">>, <<"=", " ", "1", "\n", "$", "y", " ", "=", " ", "2">>}}
    \cup {LexerOffence(<<"!">>, "Unexpected character '!'", r) :
        r \in {<<>>, <<" ", "=", " ", "1">>, <<"x", "\n", "$", "y", " ", "=", " ", "2">>}}
    \cup {LexerOffence(<<"'", "a", "b", "c">>, "Unterminated string", r) :
        r \in {<<>>, <<"\n", "'", " ", "N", "O", "T", "I", "F", "Y", " ", "'", "x", "'">>, <<"\"", "\n", "$", "y", " ", "=", " ", "2">>}}
    \cup {LexerOffence(<<"\"", "a", "b", "c">>, "Unterminated string", r) :
        r \in {<<>>, <<"'", "\n", "\"">>}}
    \cup {LexerOffence(<<"$">>, "Expected variable name after $", r) :
        r \in {<<>>, <<" ", "=", " ", "2", "0", "%">>, <<"=", "1", "\n", "$", "y", " ", "=", " ", "2">>}}

\* texts that tokenize passes whole, and after which a token may start
OffencePrefixes == {<<>>, <<"$", "x", " ", "=", " ", "1", "\n">>, <<"O", "N", " ", "p", "v", "_", "p", "o", "w", "e", "r", " ", ">", " ", "0", " ", "N", "O", "T", "I", "F", "Y", " ", "'", "x", "'", " ">>}

OffendingSource(prefix, o) == prefix \o o.at \o o.rest

OffendingSources ==
    {OffendingSource(prefix, o) : prefix \in OffencePrefixes, o \in LexerOffences}

\* EVERY day AT 25:99 NOTIFY 'x'
SourceLateSchedule == <<"E", "V", "E", "R", "Y", " ", "d", "a", "y", " ", "A", "T", " ", "2", "5", ":", "9", "9", " ", "N", "O", "T", "I", "F", "Y", " ", "'", "x", "'">>
SourceLateTime == <<"$", "t", " ", "=", " ", "2", "4", ":", "6", "0">>

\* ON battery_soc < 20% NOTIFY 'a' COOLDOWN 5min
\* ON battery_soc < 30% NOTIFY 'b' COOLDOWN 5min
SourceTwoCooldowns ==
    <<"O", "N", " ", "b", "a", "t", "t", "e", "r", "y", "_", "s", "o", "c", " ", "<", " ", "2", "0", "%", " ", "N", "O", "T", "I", "F", "Y", " ", "'", "a", "'", " ", "C", "O", "O", "L", "D", "O", "W", "N", " ", "5", "m", "i", "n", "\n", "O", "N", " ", "b", "a", "t", "t", "e", "r", "y", "_", "s", "o", "c", " ", "<", " ", "3", "0", "%", " ", "N", "O", "T", "I", "F", "Y", " ", "'", "b", "'", " ", "C", "O", "O", "L", "D", "O", "W", "N", " ", "5", "m", "i", "n">>

ProgramSources ==
    {SourceTwoRules, SourceAggregate, SourceZeroPeriod, SourceTwoArgs,
     SourceTrend, SourceAnomaly, SourceZeroAnomaly, SourceSchedules,
     SourcePlaceholder, SourceNoOperand, SourceOpenString, <<>>,
     SourceLowBattery, SourceTwoVariables, SourceHistory, SourceShortPeriod}
    \cup OffendingSources \cup {SourceLateSchedule, SourceLateTime, SourceTwoCooldowns}

\* the snapshots that the parsed programs are evaluated on
FeSnapshots == {SnapshotLow}

\* two of the orders in which a HashSet<Metric> can yield
Reverse(s) == [i \in 1..Len(s) |-> s[Len(s) + 1 - i]]
HashOrders == {MetricOrder, Reverse(MetricOrder)}

\* the system clock passes a millisecond
MillisAdvance ==
    /\ wall_millis < MaxMillis
    /\ wall_millis' = wall_millis + 1
    /\ UNCHANGED <<parser, compiled>>
    /\ UNCHANGED fe_frame

\* where the `while !self.is_at_end()` of Parser::parse stands after a turn
ParserAfter(source, tokens, r) ==
    IF ~r.ok THEN [state |-> "Done", source |-> source, result |-> Err(r.err)]
    ELSE IF is_at_end(tokens, r.current)
    THEN [state |-> "Done", source |-> source, result |-> Ok(r.v)]
    ELSE [state |-> "Parsing", source |-> source, tokens |-> tokens,
          current |-> r.current, program |-> r.v]

\* lib.rs parse(source), up to the first turn of the loop of Parser::parse;
\* the program parsed last is the one that is evaluated, and no parse follows
\* its evaluation
Parse(source) ==
    /\ parser.state /= "Parsing"
    /\ rt_ret = None
    /\ \E t \in {tokenize(source)} :
          parser' = IF ~t.ok
                    THEN [state |-> "Done", source |-> source, result |-> t]
                    ELSE ParserAfter(source, Parser_new(t.v).tokens,
                                     POk(Program_default, 1))
    /\ compiled' = None
    /\ UNCHANGED wall_millis
    /\ UNCHANGED fe_frame

\* one turn of the loop of Parser::parse
ParseStep ==
    /\ parser.state = "Parsing"
    /\ \E r \in {parse_step(parser.tokens, parser.current, parser.program, WallMs)} :
          parser' = ParserAfter(parser.source, parser.tokens, r)
    /\ UNCHANGED <<wall_millis, compiled>>
    /\ UNCHANGED fe_frame

\* Compiler::new().compile(&program) of the Program that parse returned
Compile(hash_order) ==
    /\ parser.state = "Done"
    /\ parser.result.ok
    /\ compiled = None
    /\ \E r \in {compile(Compiler_new, parser.result.v, wall, hash_order)} :
          compiled' = Some(r.ret)
    /\ UNCHANGED <<wall_millis, parser>>
    /\ UNCHANGED fe_frame

\* the Program that parse returned on a new Runtime: Runtime::new(),
\* load_variables(&program), evaluate_all(&program, &metrics)
EvaluateParsed(metrics) ==
    /\ parser.state = "Done"
    /\ parser.result.ok
    /\ \E r \in {evaluate_all(load_variables(Runtime_new, parser.result.v),
                              parser.result.v, metrics, clock, WallMs)} :
          /\ runtime' = r.rt
          /\ rt_ret' = Some([op |-> "evaluate_all", program |-> parser.result.v,
                             metrics |-> metrics, ret |-> r.ret])
    /\ UNCHANGED <<clock, wall, wall_millis, parser, compiled, rt_mark, rt_tn>>
    /\ UNCHANGED <<sched_vars, dt_vars, co_vars, dsp_vars, srv_vars, chk_vars>>

FrontEndInit ==
    /\ clock = 0 /\ wall = 0 /\ wall_millis = 0
    /\ SchedInit /\ DtInit /\ RtInit /\ FeInit /\ CoInit /\ DspInit /\ SrvInit

FrontEndNext ==
    \/ MillisAdvance
    \/ \E source \in ProgramSources \cup LiteralSources : Parse(source)
    \/ ParseStep
    \/ \E hash_order \in HashOrders : Compile(hash_order)
    \/ \E metrics \in FeSnapshots : EvaluateParsed(metrics)

SpecFrontEnd == FrontEndInit /\ [][FrontEndNext]_vars

-----------------------------------------------------------------------------
(* A Compiler that its owner keeps and calls compile on, program after       *)
(* program                                                                   *)

\* the `while !self.is_at_end()` of Parser::parse
RECURSIVE parse_loop(_, _, _, _)
parse_loop(tokens, current, program, now_ms) ==
    IF is_at_end(tokens, current) THEN Ok(program)
    ELSE Bind(parse_step(tokens, current, program, now_ms), LAMBDA r :
             IF r.ok THEN parse_loop(tokens, r.current, r.v, now_ms)
             ELSE Err(r.err))

\* lib.rs parse(source), all of it within the millisecond now_ms
parse(source, now_ms) ==
    Bind(tokenize(source), LAMBDA t :
        IF t.ok THEN parse_loop(Parser_new(t.v).tokens, 1, Program_default, now_ms)
        ELSE t)

CompilerSources ==
    {SourceTwoRules, SourceAggregate, SourceTwoArgs, SourceTrend,
     SourceZeroAnomaly, SourceSchedules, SourceHistory, SourceShortPeriod, <<>>}

\* the programs that the Compiler is given
CompilerPrograms == {parse(source, 0).v : source \in CompilerSources}

\* compiler.compile(&program)
CompilerCompile(program, hash_order) ==
    /\ \E r \in {compile(compiler, program, wall, hash_order)} :
          /\ compiler' = r.c
          /\ compiler_ret' = Some([on |-> compiler, program |-> program,
                                   hash_order |-> hash_order, ret |-> r.ret])
    /\ UNCHANGED <<clock, wall, wall_millis>>
    /\ UNCHANGED <<sched_vars, dt_vars, rt_vars, fe_vars, srv_vars, chk_vars, dsp_vars>>

CompilerInit ==
    /\ clock = 0 /\ wall = 0 /\ wall_millis = 0
    /\ SchedInit /\ DtInit /\ RtInit /\ FeInit /\ CoInit /\ DspInit /\ SrvInit

CompilerNext ==
    \E program \in CompilerPrograms : \E hash_order \in HashOrders :
        CompilerCompile(program, hash_order)

SpecCompiler == CompilerInit /\ [][CompilerNext]_vars
-----------------------------------------------------------------------------
(* The lexer as a state machine: Lexer::new(source), then the turns of the   *)
(* `while let Some((pos, ch)) = self.chars.next()` of tokenize               *)

\* the duration suffixes of the language reference
DurationSuffixes ==
    {<<"s">>, <<"s", "e", "c">>, <<"m", "i", "n">>, <<"m">>, <<"h">>, <<"h", "o", "u", "r">>, <<"d">>, <<"d", "a", "y">>, <<"w">>, <<"w", "e", "e", "k">>, <<"m", "o", "n", "t", "h">>}

\* a word with its first letter in upper case
Capitalized(s) == <<char_to_uppercase(s[1])>> \o SubSeq(s, 2, Len(s))

\* a numeral immediately followed by a suffix
SuffixedSource(numeral, suffix) == numeral.text \o suffix

SuffixedSources ==
    {SuffixedSource(numeral, suffix) :
        numeral \in NumeralSamples,
        suffix \in DurationSuffixes
                   \cup {to_uppercase(s) : s \in DurationSuffixes}
                   \cup {Capitalized(s) : s \in DurationSuffixes}}

\* a rule with an indented block, and `line` between the two lines of the
\* block
LayoutSource(line) ==
    <<"O", "N", " ", "p", "v", "_", "p", "o", "w", "e", "r", " ", ">", " ", "0", "\n", " ", " ", "N", "O", "T", "I", "F", "Y", " ", "'", "x", "'", "\n">> \o line \o <<"\n", " ", " ", "L", "O", "G", " ", "'", "y", "'">>

LayoutLines == {<<>>, <<" ", " ", " ">>, <<"\t">>, <<"#", " ", "c">>, <<" ", " ", " ", " ", " ", " ", "#", " ", "c">>, <<"/", "/", " ", "c">>, <<" ", " ", " ", " ", " ", " ", "/", "/", " ", "c">>}

\* the sources of test_line_comments and test_slash_comments, shortened
SourceLineComments == <<"\n", " ", " ", "#", " ", "c", "\n", " ", " ", "$", "t", " ", "=", " ", "2", "0", "%", "\n", " ", " ", "#", " ", "d", "\n", " ", " ", "O", "N", " ", "b", "a", "t", "t", "e", "r", "y", "_", "s", "o", "c", " ", "<", " ", "$", "t", "\n", " ", " ", " ", " ", "N", "O", "T", "I", "F", "Y", " ", "\"", "L", "\"", " ", " ", "#", " ", "e", "\n", " ", " ">>
SourceSlashComments == <<"\n", " ", " ", "/", "/", " ", "c", "\n", " ", " ", "$", "t", " ", "=", " ", "2", "0", "%", "\n", " ", " ">>

LayoutSources ==
    {LayoutSource(line) : line \in LayoutLines}
    \cup {SourceLineComments, SourceSlashComments}

\* Lexer::new(source)
LexBegin(source) ==
    /\ parser.state \in {"Idle", "Lexed"}
    /\ parser' = [state |-> "Lexing", source |-> source, lx |-> Lexer_new]
    /\ UNCHANGED <<wall_millis, compiled>>
    /\ UNCHANGED fe_frame

\* one turn of the loop of tokenize, or the Eof token and the return after
\* the last
LexStep ==
    /\ parser.state = "Lexing"
    /\ parser' =
          IF parser.lx.pos > Len(parser.source)
          THEN [state |-> "Lexed", source |-> parser.source,
                result |-> tokenize_loop(parser.source, parser.lx)]
          ELSE Bind(lex_step(parser.source, parser.lx), LAMBDA r :
                   IF r.ok
                   THEN [state |-> "Lexing", source |-> parser.source, lx |-> r.v]
                   ELSE [state |-> "Lexed", source |-> parser.source, result |-> r])
    /\ UNCHANGED <<wall_millis, compiled>>
    /\ UNCHANGED fe_frame

LexerNext ==
    \/ \E source \in SuffixedSources \cup LayoutSources : LexBegin(source)
    \/ LexStep

SpecLexer == FrontEndInit /\ [][LexerNext]_vars
-----------------------------------------------------------------------------
(* Parser::parse turn by turn, on sources with indented blocks, comments and *)
(* tokens that belong to no declaration or rule                              *)

\* NOTIFY 'x'
\* $t = 20%
SourceStrayAction == <<"N", "O", "T", "I", "F", "Y", " ", "'", "x", "'", "\n", "$", "t", " ", "=", " ", "2", "0", "%">>
\* $t 20%
\* $u = 1
SourceNoAssign == <<"$", "t", " ", "2", "0", "%", "\n", "$", "u", " ", "=", " ", "1">>
SourceStrayParen == <<")", " ", "O", "N", " ", "p", "v", "_", "p", "o", "w", "e", "r", " ", ">", " ", "0", " ", "N", "O", "T", "I", "F", "Y", " ", "'", "x", "'", " ", ")">>
\* EVERY day AT 7:00
\*   NOTIFY 'd'
\*   LOG 'l'
\*   NOTIFY 'e'
SourceScheduleBlock == <<"E", "V", "E", "R", "Y", " ", "d", "a", "y", " ", "A", "T", " ", "7", ":", "0", "0", "\n", " ", " ", "N", "O", "T", "I", "F", "Y", " ", "'", "d", "'", "\n", " ", " ", "L", "O", "G", " ", "'", "l", "'", "\n", " ", " ", "N", "O", "T", "I", "F", "Y", " ", "'", "e", "'", "\n">>

ParserSources ==
    ProgramSources \cup LayoutSources
    \cup {SourceStrayAction, SourceNoAssign, SourceStrayParen, SourceScheduleBlock}

ParserNext ==
    \/ \E source \in ParserSources : Parse(source)
    \/ ParseStep

SpecParser == FrontEndInit /\ [][ParserNext]_vars

\* parse runs its loop to the end without waiting for anything
SpecParserFair == SpecParser /\ WF_vars(ParseStep)
-----------------------------------------------------------------------------
(* bin/server.rs: store_rules and evaluate requests on the shared AppState.  *)
(* A handler is a sequence of steps; the steps of the requests in flight     *)
(* interleave, and the RwLock around the runtimes orders the steps that      *)
(* take it.                                                                  *)

\* what the server leaves alone
chk_frame == <<wall, wall_millis, sched_vars, dt_vars, rt_vars, fe_vars, co_vars, dsp_vars>>
srv_frame == <<wall, wall_millis, sched_vars, dt_vars, rt_vars, fe_vars, co_vars, dsp_vars, chk_vars>>

SiteDemo == <<"d", "e", "m", "o">>
SiteIds == {SiteDemo}
SrvSnapshots == {SnapshotLow, SnapshotHigh}

\* ON battery_soc < 20% NOTIFY 'Low' WEBHOOK 'http://h' COOLDOWN 0s
RuleNow ==
    EventRule(RuleIdOf(2), None, ConditionLowSoc,
              <<NotifyAction(from_literal(TextLow), None, None),
                WebhookAction(UrlHook, None, None, None)>>, Some(0), TRUE)

\* a stored program: the rule with a cooldown of 60 s and the one with 0 s
SrvProgram == Program(<<"1", ".", "0">>, <<>>, <<RuleLow(TRUE), RuleNow>>)
SrvPrograms == {SrvProgram}

\* $threshold = 1kW and the rule with a cooldown of 60 s
SrvProgramThreshold ==
    Program(<<"1", ".", "0">>, <<Variable(NameThreshold, ValuePower(F(1000)))>>,
            <<RuleLow(TRUE)>>)
\* the programs that store_rules requests put in each other's place
ReplacePrograms == {SrvProgram, SrvProgramThreshold}

InSection(req) == requests[req].pc \in {"locked", "recorded"}
Evaluated(req) ==
    requests[req].pc \in {"dispatch", "done"} /\ requests[req].evaluated

is_dispatched_mut(result) == TRUE

\* `if result.triggered` of the evaluate handler
is_dispatched(result) == result.triggered

\* `for action in &result.actions`: the dispatcher.dispatch calls, each
\* logged as the result and the action it was made for
dispatch_actions(i, result) ==
    [j \in 1..Len(result.actions) |->
        [kind |-> "dispatch", result |-> i, action |-> j]]

\* `for result in results` of the evaluate handler, from index i on, with
\* the calls made so far: the dispatch calls of a result, then its
\* dispatch_to_webhooks call
RECURSIVE dispatch_loop(_, _, _)
dispatch_loop(results, i, calls) ==
    IF i > Len(results) THEN calls
    ELSE IF is_dispatched(results[i])
    THEN dispatch_loop(results, i + 1,
                       calls \o dispatch_actions(i, results[i])
                             \o <<[kind |-> "dispatch_to_webhooks", result |-> i]>>)
    ELSE dispatch_loop(results, i + 1, calls)

write_available_mut(lock) == TRUE

\* RwLock::write returns once no other guard of the lock is held
write_available(lock) == lock = None

\* monotonic time passes
SrvTick ==
    /\ clock + ClockStep <= MaxClock
    /\ clock' = clock + ClockStep
    /\ UNCHANGED srv_vars
    /\ UNCHANGED srv_frame

\* store_rules up to programs.insert: parse returned `program`
StoreProgram(site_id, program) ==
    /\ store = None
    /\ server' = [server EXCEPT !.programs = MapInsert(@, site_id, program)]
    /\ store' = Some([pc |-> "runtime", site_id |-> site_id, program |-> program,
                      runtime |-> load_variables(Runtime_new, program)])
    /\ UNCHANGED <<clock, runtimes_lock, requests>>
    /\ UNCHANGED srv_frame

\* store_rules: runtimes.insert under runtimes.write()
StoreRuntime ==
    /\ IsSome(store)
    /\ Unwrap(store).pc = "runtime"
    /\ write_available(runtimes_lock)
    /\ server' = [server EXCEPT
                     !.runtimes = MapInsert(@, Unwrap(store).site_id,
                                            Unwrap(store).runtime),
                     !.built_for = MapInsert(@, Unwrap(store).site_id,
                                             Unwrap(store).program)]
    /\ store' = Some([Unwrap(store) EXCEPT !.pc = "scheduler"])
    /\ requests' = [req \in EvaluateRequests |->
                       IF Evaluated(req)
                       THEN [requests[req] EXCEPT !.replaced = TRUE]
                       ELSE requests[req]]
    /\ UNCHANGED <<clock, runtimes_lock>>
    /\ UNCHANGED srv_frame

\* Scheduler::new
Scheduler_new == [last_triggered |-> EmptyMap, last_triggered_ts |-> EmptyMap]

\* store_rules: schedulers.insert under schedulers.write(), and the response
StoreScheduler ==
    /\ IsSome(store)
    /\ Unwrap(store).pc = "scheduler"
    /\ schedulers' = MapInsert(schedulers, Unwrap(store).site_id, Scheduler_new)
    /\ store' = None
    /\ checks' = [req \in CheckRequests |->
                     IF checks[req].pc /= "idle"
                     THEN [checks[req] EXCEPT !.reset = TRUE]
                     ELSE checks[req]]
    /\ UNCHANGED <<clock, server, runtimes_lock, requests>>
    /\ UNCHANGED chk_frame

\* evaluate up to the program it reads under programs.read()
EvaluateBegin(req, site_id, metrics) ==
    /\ requests[req].pc = "idle"
    /\ LET program == MapGet(server.programs, site_id)
       IN  requests' = [requests EXCEPT ![req] =
               [pc |-> IF IsSome(program) THEN "read" ELSE "done",
                site_id |-> site_id, metrics |-> metrics,
                timestamp_ms |-> WallMs, program |-> program,
                results |-> None, evaluated |-> FALSE, at |-> 0,
                replaced |-> FALSE, since |-> {}, calls |-> <<>>,
                overlaps |-> {q \in EvaluateRequests :
                                 requests[q].pc \in {"read", "locked", "recorded",
                                                     "dispatch"}}]]
    /\ UNCHANGED <<clock, server, runtimes_lock, store>>
    /\ UNCHANGED srv_frame

\* evaluate: runtimes.write() and runtimes.entry(site_id).or_insert_with
EvaluateLock(req) ==
    /\ requests[req].pc = "read"
    /\ write_available(runtimes_lock)
    /\ runtimes_lock' = Some(req)
    /\ server' =
          IF requests[req].site_id \in DOMAIN server.runtimes THEN server
          ELSE [server EXCEPT
                   !.runtimes =
                       MapInsert(@, requests[req].site_id,
                                 load_variables(Runtime_new,
                                                Unwrap(requests[req].program))),
                   !.built_for = MapInsert(@, requests[req].site_id,
                                           Unwrap(requests[req].program))]
    /\ requests' = [requests EXCEPT ![req].pc = "locked"]
    /\ UNCHANGED <<clock, store>>
    /\ UNCHANGED srv_frame

\* evaluate: runtime.record_history(&metrics, timestamp_ms)
EvaluateRecord(req) ==
    /\ requests[req].pc = "locked"
    /\ server' = [server EXCEPT !.runtimes[requests[req].site_id] =
                     record_history(@, requests[req].metrics,
                                    requests[req].timestamp_ms)]
    /\ requests' = [requests EXCEPT ![req].pc = "recorded"]
    /\ UNCHANGED <<clock, runtimes_lock, store>>
    /\ UNCHANGED srv_frame

\* evaluate: runtime.evaluate_all(&program, &metrics) and the end of the
\* block that holds the write guard
EvaluateRules(req) ==
    /\ requests[req].pc = "recorded"
    /\ \E r \in {evaluate_all(server.runtimes[requests[req].site_id],
                              Unwrap(requests[req].program),
                              requests[req].metrics, clock, WallMs)} :
          /\ server' = [server EXCEPT !.runtimes[requests[req].site_id] = r.rt]
          /\ requests' = [requests EXCEPT ![req] =
                 [@ EXCEPT !.pc = "dispatch", !.results = Some(r.ret),
                           !.evaluated = TRUE, !.at = clock,
                           !.since = {q \in EvaluateRequests :
                                         Evaluated(q) /\ ~requests[q].replaced}]]
    /\ runtimes_lock' = None
    /\ UNCHANGED <<clock, store>>
    /\ UNCHANGED srv_frame

\* evaluate: `match results`, the dispatch of the triggered results' actions
\* and the response
EvaluateDispatch(req) ==
    /\ requests[req].pc = "dispatch"
    /\ requests' = [requests EXCEPT ![req] =
           [@ EXCEPT !.pc = "done",
                     !.calls = IF Unwrap(requests[req].results).ok
                               THEN dispatch_loop(Unwrap(requests[req].results).v,
                                                  1, <<>>)
                               ELSE <<>>]]
    /\ UNCHANGED <<clock, server, runtimes_lock, store>>
    /\ UNCHANGED srv_frame

ServerInit ==
    /\ clock = 0 /\ wall = 0 /\ wall_millis = 0
    /\ SchedInit /\ DtInit /\ RtInit /\ FeInit /\ CoInit /\ DspInit /\ SrvInit

ServerNext ==
    \/ SrvTick
    \/ \E site_id \in SiteIds, program \in SrvPrograms :
          StoreProgram(site_id, program)
    \/ StoreRuntime
    \/ StoreScheduler
    \/ \E req \in EvaluateRequests, site_id \in SiteIds, metrics \in SrvSnapshots :
          EvaluateBegin(req, site_id, metrics)
    \/ \E req \in EvaluateRequests : EvaluateLock(req)
    \/ \E req \in EvaluateRequests : EvaluateRecord(req)
    \/ \E req \in EvaluateRequests : EvaluateRules(req)
    \/ \E req \in EvaluateRequests : EvaluateDispatch(req)

SpecServer == ServerInit /\ [][ServerNext]_vars

\* the server under store_rules requests that replace a site's program
ReplaceNext ==
    \/ SrvTick
    \/ \E site_id \in SiteIds, program \in ReplacePrograms :
          StoreProgram(site_id, program)
    \/ StoreRuntime
    \/ StoreScheduler
    \/ \E req \in EvaluateRequests, site_id \in SiteIds, metrics \in SrvSnapshots :
          EvaluateBegin(req, site_id, metrics)
    \/ \E req \in EvaluateRequests : EvaluateLock(req)
    \/ \E req \in EvaluateRequests : EvaluateRecord(req)
    \/ \E req \in EvaluateRequests : EvaluateRules(req)
    \/ \E req \in EvaluateRequests : EvaluateDispatch(req)

SpecReplace == ServerInit /\ [][ReplaceNext]_vars

-----------------------------------------------------------------------------
(* bin/server.rs: check_schedules requests on the shared AppState, next to   *)
(* store_rules.  Each request works on its clone of the site's Scheduler.    *)

\* EVERY day AT 00:00 NOTIFY 'Low'
RuleDaily ==
    ScheduleRule(RuleIdOf(1), None,
                 CalendarSchedule("Daily", [hour |-> 0, minute |-> 0], None),
                 <<NotifyAction(from_literal(TextLow), None, None)>>, TRUE)
\* a 60 s interval
RuleMinutely ==
    ScheduleRule(RuleIdOf(3), None, IntervalSchedule(60),
                 <<LogAction(from_literal(TextLow), None)>>, TRUE)

\* a stored program: the daily rule, an event rule and the interval rule
ChkProgram == Program(<<"1", ".", "0">>, <<>>, <<RuleDaily, RuleNow, RuleMinutely>>)
ChkPrograms == {ChkProgram}

\* req.timestamp: two instants of the minute 00:00 of day 0, and 00:00 of day 1
ChkTimes == {0, 30, SecondsPerDay}

\* the request is between its first step and its response
ChkInFlight(req) == checks[req].pc \in {"read", "loop", "write"}

\* check_schedules up to the program it reads under programs.read()
CheckBegin(req, site_id, timestamp) ==
    /\ checks[req].pc = "idle"
    /\ LET program == MapGet(server.programs, site_id)
       IN  checks' = [checks EXCEPT ![req] =
               [pc |-> IF IsSome(program) THEN "read" ELSE "done",
                site_id |-> site_id, timestamp |-> timestamp,
                program |-> program, scheduler |-> None, i |-> 1,
                triggered_schedules |-> <<>>, calls |-> <<>>,
                reset |-> FALSE,
                overlaps |-> {q \in CheckRequests : ChkInFlight(q)}]]
    /\ UNCHANGED <<clock, schedulers, srv_vars>>
    /\ UNCHANGED chk_frame

\* check_schedules: schedulers.entry(site_id).or_insert_with(Scheduler::new)
\* and the clone of it, under schedulers.write()
CheckClone(req) ==
    /\ checks[req].pc = "read"
    /\ schedulers' =
          IF checks[req].site_id \in DOMAIN schedulers THEN schedulers
          ELSE MapInsert(schedulers, checks[req].site_id, Scheduler_new)
    /\ checks' = [checks EXCEPT ![req] =
           [@ EXCEPT !.pc = "loop",
                     !.scheduler = Some(schedulers'[checks[req].site_id])]]
    /\ UNCHANGED <<clock, srv_vars>>
    /\ UNCHANGED chk_frame

\* check_schedules: one turn of `for rule in &program.rules`, on the clone:
\* the decision and, after a true one, record_trigger, the entry of
\* triggered_schedules, the dispatch of the rule's actions and the
\* dispatch_to_webhooks call
CheckRule(req) ==
    /\ checks[req].pc = "loop"
    /\ LET r == checks[req]
           rule == Unwrap(r.program).rules[r.i]
           last == r.i = Len(Unwrap(r.program).rules)
           fires == /\ rule.rule_type = "Schedule"
                    /\ rule_should_trigger(Unwrap(r.scheduler), rule, r.timestamp)
       IN  checks' = [checks EXCEPT ![req] =
               IF fires
               THEN [@ EXCEPT
                       !.pc = IF last THEN "write" ELSE "loop",
                       !.i = r.i + 1,
                       !.scheduler = Some(record_trigger(Unwrap(r.scheduler),
                                                         rule.id, r.timestamp)),
                       !.triggered_schedules =
                           Append(@, [rule_id |-> rule.id,
                                      schedule_type |-> rule.schedule.type]),
                       !.calls = @ \o [j \in 1..Len(rule.actions) |->
                                         [kind |-> "dispatch", rule_id |-> rule.id,
                                          action |-> j]]
                                   \o <<[kind |-> "dispatch_to_webhooks",
                                         rule_id |-> rule.id]>>]
               ELSE [@ EXCEPT !.pc = IF last THEN "write" ELSE "loop",
                              !.i = r.i + 1]]
    /\ UNCHANGED <<clock, schedulers, srv_vars>>
    /\ UNCHANGED chk_frame

\* check_schedules: schedulers.insert(site_id, scheduler) under
\* schedulers.write(), and the response
CheckWrite(req) ==
    /\ checks[req].pc = "write"
    /\ schedulers' = MapInsert(schedulers, checks[req].site_id,
                               Unwrap(checks[req].scheduler))
    /\ checks' = [checks EXCEPT ![req].pc = "done"]
    /\ UNCHANGED <<clock, srv_vars>>
    /\ UNCHANGED chk_frame

\* monotonic time passes
ChkTick ==
    /\ clock + ClockStep <= MaxClock
    /\ clock' = clock + ClockStep
    /\ UNCHANGED <<srv_vars, chk_vars>>
    /\ UNCHANGED chk_frame

SchedulesInit ==
    /\ clock = 0 /\ wall = 0 /\ wall_millis = 0
    /\ SchedInit /\ DtInit /\ RtInit /\ FeInit /\ CoInit /\ DspInit /\ SrvInit

SchedulesNext ==
    \/ ChkTick
    \/ \E site_id \in SiteIds, program \in ChkPrograms :
          StoreProgram(site_id, program)
    \/ StoreRuntime
    \/ StoreScheduler
    \/ \E req \in CheckRequests, site_id \in SiteIds, timestamp \in ChkTimes :
          CheckBegin(req, site_id, timestamp)
    \/ \E req \in CheckRequests : CheckClone(req)
    \/ \E req \in CheckRequests : CheckRule(req)
    \/ \E req \in CheckRequests : CheckWrite(req)

SpecSchedules == SchedulesInit /\ [][SchedulesNext]_vars
-----------------------------------------------------------------------------
(* The AsyncDispatcher that a request handler builds from the server's       *)
(* DispatcherConfig and the site's webhooks, and the calls it gets           *)

dsp_frame == <<clock, wall, wall_millis, sched_vars, dt_vars, rt_vars, fe_vars, co_vars, srv_vars, chk_vars>>

MaxOutbox == 3

UrlTelegramToken == <<"t", "o", "k">>
UrlOther == <<"h", "t", "t", "p", ":", "/", "/", "o">>

\* an enabled webhook for every event with a bearer token, an enabled one
\* for schedule events only, and a disabled one
SiteWebhooks ==
    <<WebhookConfig("wh1", UrlHook, TRUE, "Bearer", Some(UrlTelegramToken), <<"All">>),
      WebhookConfig("wh2", UrlOther, TRUE, "None", None, <<"ScheduleTriggered">>),
      WebhookConfig("wh3", UrlOther, FALSE, "None", None, <<"All">>)>>

\* SEL_DRY_RUN set or not, Telegram configured or not
DispatcherSamples ==
    {with_webhooks(
         AsyncDispatcher_new(
             DispatcherConfig(telegram, IF telegram = None THEN None ELSE Some("chat"),
                              EmptyMap, dry_run)),
         SiteWebhooks) :
        telegram \in {None, Some(UrlTelegramToken)}, dry_run \in BOOLEAN}

\* what a request of the client gets: a status with a body, or an error
HttpResponses ==
    {[ok |-> TRUE, status |-> 200, body |-> <<>>, elapsed_ms |-> 0],
     [ok |-> TRUE, status |-> 500, body |-> <<"e", "r", "r", "o", "r">>, elapsed_ms |-> 0],
     [ok |-> FALSE, err |-> <<"t", "i", "m", "e", "o", "u", "t">>, elapsed_ms |-> 0]}

\* the ActionResults of the runtime that the handlers dispatch
ActionResultSamples ==
    {[type |-> "Notify", message |-> TextLow],
     [type |-> "Webhook", url |-> UrlHook, body |-> <<"{", "}">>],
     [type |-> "Log", message |-> TextLow],
     Skipped("In cooldown")}

WebhookEvents == {"RuleTriggered", "ScheduleTriggered"}

\* the payload that the handlers build for an event of a site
EventPayload(event, site_id) == [event |-> event, site_id |-> site_id, timestamp |-> 0]

\* dispatcher.dispatch(&action).await
Dispatch(action, response) ==
    \E r \in {dispatch(dispatcher, action, response)} :
        /\ Len(outbox) + Len(r.sent) <= MaxOutbox
        /\ outbox' = outbox \o r.sent
        /\ dsp_ret' = Some([op |-> "dispatch", action |-> action, ret |-> r.ret])
        /\ UNCHANGED <<dispatcher, webhook_history>>
        /\ UNCHANGED dsp_frame

\* dispatcher.dispatch_to_webhooks(&event, &payload).await
DispatchToWebhooks(event, responses) ==
    \E r \in {dispatch_to_webhooks(dispatcher, event, EventPayload(event, "demo"), wall,
                                   responses)} :
        /\ Len(outbox) + Len(r.sent) <= MaxOutbox
        /\ outbox' = outbox \o r.sent
        /\ dsp_ret' = Some([op |-> "dispatch_to_webhooks", event |-> event,
                            ret |-> r.ret])
        /\ UNCHANGED <<dispatcher, webhook_history>>
        /\ UNCHANGED dsp_frame

DispatcherInit ==
    /\ clock = 0 /\ wall = 0 /\ wall_millis = 0
    /\ SchedInit /\ DtInit /\ RtInit /\ FeInit /\ CoInit /\ SrvInit
    /\ dispatcher \in DispatcherSamples
    /\ outbox = <<>>
    /\ dsp_ret = None
    /\ webhook_history = EmptyMap

DispatcherNext ==
    \/ \E action \in ActionResultSamples, response \in HttpResponses :
          Dispatch(action, response)
    \/ \E event \in WebhookEvents, response \in HttpResponses :
          DispatchToWebhooks(event, [i \in 1..Len(dispatcher.webhooks) |-> response])

SpecDispatcher == DispatcherInit /\ [][DispatcherNext]_vars

-----------------------------------------------------------------------------
(* AppState::record_delivery under handlers that record the deliveries of    *)
(* two sites, each site's deliveries numbered in the order they arrive       *)

MaxDeliveries == 102

DeliverySites == {"demo", "other"}

\* the number of record_delivery calls made for the site so far
Arrived(site_id) == IF dsp_ret = None THEN 0 ELSE Unwrap(dsp_ret).arrived[site_id]

\* the n-th delivery of the site: the record that dispatch_to_webhooks makes
\* of a delivered request with the site's payload, with n as its timestamp
DeliveryNo(site_id, n) ==
    WebhookDelivery(SiteWebhooks[1], n,
                    json_to_string(EventPayload("RuleTriggered", site_id)),
                    with_status(DispatchResult_success(
                                    <<"Webhook delivered to {}", SiteWebhooks[1].url>>),
                                200),
                    0)

\* state.record_delivery(&site_id, delivery)
RecordDelivery(site_id) ==
    /\ Arrived(site_id) < MaxDeliveries
    /\ webhook_history' = record_delivery(webhook_history, site_id,
                                          DeliveryNo(site_id, Arrived(site_id) + 1))
    /\ dsp_ret' = Some([op |-> "record_delivery",
                        arrived |-> [s \in DeliverySites |->
                                        IF s = site_id THEN Arrived(s) + 1
                                        ELSE Arrived(s)]])
    /\ UNCHANGED <<dispatcher, outbox>>
    /\ UNCHANGED dsp_frame

DeliveryInit ==
    /\ clock = 0 /\ wall = 0 /\ wall_millis = 0
    /\ SchedInit /\ DtInit /\ RtInit /\ FeInit /\ CoInit /\ DspInit /\ SrvInit

DeliveryNext == \E site_id \in DeliverySites : RecordDelivery(site_id)

SpecDelivery == DeliveryInit /\ [][DeliveryNext]_vars
-----------------------------------------------------------------------------
(* Claims about the scheduler *)

\* the calendar period of a frequency, by the claim's words: the UTC day for
\* Daily and Weekly, the month for Monthly, the year for Yearly
SamePeriod(frequency, ts1, ts2) ==
    CASE frequency \in {"Daily", "Weekly"} ->
            ts1 \div SecondsPerDay = ts2 \div SecondsPerDay
      [] frequency = "Monthly" ->
            /\ from_timestamp(ts1).year = from_timestamp(ts2).year
            /\ from_timestamp(ts1).month = from_timestamp(ts2).month
      [] frequency = "Yearly" ->
            from_timestamp(ts1).year = from_timestamp(ts2).year

ReturnedFrom(op) == IsSome(sched_ret) /\ Unwrap(sched_ret).op = op

\* C2: once record_trigger(rule.id, ts) has been called, should_trigger of a
\* Calendar rule returns false for every now in the calendar period of ts
Thm_C2 ==
    (/\ ReturnedFrom("should_trigger")
     /\ Unwrap(sched_ret).rule.schedule.type = "Calendar"
     /\ IsSome(sched_mark)
     /\ Unwrap(sched_mark).id = Unwrap(sched_ret).rule.id
     /\ SamePeriod(Unwrap(sched_ret).rule.schedule.frequency,
                   Unwrap(sched_mark).ts, wall))
    => Unwrap(sched_ret).ret = FALSE

\* a rule that matches now and is past the 60 s guard, held back by a trigger
\* recorded in the same period
Wit_C2 ==
    /\ ReturnedFrom("should_trigger")
    /\ Unwrap(sched_ret).rule.schedule.type = "Calendar"
    /\ Unwrap(sched_ret).rule.enabled
    /\ IsSome(sched_mark)
    /\ Unwrap(sched_mark).id = Unwrap(sched_ret).rule.id
    /\ Unwrap(sched_mark).ts < wall
    /\ SamePeriod(Unwrap(sched_ret).rule.schedule.frequency,
                  Unwrap(sched_mark).ts, wall)
    /\ can_trigger(TheScheduler, Unwrap(sched_ret).rule.id, MinTriggerInterval)
    /\ matches_schedule(Unwrap(sched_ret).rule.schedule, from_timestamp(wall))
    /\ Unwrap(sched_ret).ret = FALSE

\* C8: from_timestamp yields hour 0..23, minute 0..59, weekday 1..7, the
\* weekday being ((days since the epoch + 3) mod 7) + 1
Thm_C8 ==
    IsSome(dt) =>
        /\ Unwrap(dt).hour \in 0..23
        /\ Unwrap(dt).minute \in 0..59
        /\ Unwrap(dt).weekday \in 1..7
        /\ Unwrap(dt).weekday = (((dt_ts \div 86400) + 3) % 7) + 1

\* a Sunday, at 23:59:59
Wit_C8 ==
    /\ IsSome(dt)
    /\ dt_ts > 0
    /\ Unwrap(dt).weekday = 7
    /\ Unwrap(dt).hour = 23
    /\ Unwrap(dt).minute = 59

\* the day condition of C10
C10DayHolds(cal, now) ==
    CASE cal.frequency = "Daily" -> TRUE
      [] cal.frequency = "Weekly" ->
            now.weekday = (IF IsSome(cal.on) THEN Unwrap(cal.on) ELSE 1)
      [] cal.frequency = "Monthly" ->
            now.day = (IF IsSome(cal.on) THEN Unwrap(cal.on) ELSE 1)
      [] cal.frequency = "Yearly" ->
            now.month = 1 /\ now.day = (IF IsSome(cal.on) THEN Unwrap(cal.on) ELSE 1)

\* C10: for an enabled Calendar rule with no recorded trigger should_trigger
\* is true exactly when hour and minute equal `at` and the day condition of
\* the frequency holds
Thm_C10 ==
    (/\ ReturnedFrom("should_trigger")
     /\ Unwrap(sched_ret).rule.schedule.type = "Calendar"
     /\ Unwrap(sched_ret).rule.enabled
     /\ Unwrap(sched_ret).rule.id \notin DOMAIN sched_last_triggered_ts
     /\ Unwrap(sched_ret).rule.id \notin DOMAIN sched_last_triggered)
    => LET cal == Unwrap(sched_ret).rule.schedule
           now == from_timestamp(wall)
       IN  Unwrap(sched_ret).ret
             = (/\ now.hour = cal.at.hour
                /\ now.minute = cal.at.minute
                /\ C10DayHolds(cal, now))

\* a Weekly rule with `on` unset firing on a Monday
Wit_C10 ==
    /\ ReturnedFrom("should_trigger")
    /\ Unwrap(sched_ret).rule.schedule.type = "Calendar"
    /\ Unwrap(sched_ret).rule.schedule.frequency = "Weekly"
    /\ Unwrap(sched_ret).rule.schedule.on = None
    /\ Unwrap(sched_ret).rule.id \notin DOMAIN sched_last_triggered_ts
    /\ from_timestamp(wall).weekday = 1
    /\ Unwrap(sched_ret).ret = TRUE


\* C11: after record_trigger(rule.id, _), which writes Instant::now() into
\* the ledger entry of the rule, should_trigger returns false for every call
\* made less than 60 s of monotonic time later, whatever `now` is passed
Thm_C11 ==
    (/\ ReturnedFrom("should_trigger")
     /\ Unwrap(sched_ret).rule.id \in DOMAIN sched_last_triggered
     /\ clock - sched_last_triggered[Unwrap(sched_ret).rule.id] < 60)
    => Unwrap(sched_ret).ret = FALSE

\* 30 s after a trigger recorded in an earlier calendar period, at a `now`
\* that matches the schedule in a period without a trigger
Wit_C11 ==
    /\ ReturnedFrom("should_trigger")
    /\ Unwrap(sched_ret).rule.enabled
    /\ Unwrap(sched_ret).rule.schedule.type = "Calendar"
    /\ Unwrap(sched_ret).rule.id \in DOMAIN sched_last_triggered
    /\ clock - sched_last_triggered[Unwrap(sched_ret).rule.id] \in 1..59
    /\ ~already_triggered_in_period(
           Unwrap(sched_ret).rule,
           from_timestamp(sched_last_triggered_ts[Unwrap(sched_ret).rule.id]),
           from_timestamp(wall))
    /\ matches_schedule(Unwrap(sched_ret).rule.schedule, from_timestamp(wall))
    /\ Unwrap(sched_ret).ret = FALSE

\* C12: check_interval is true exactly when the rule is enabled, its schedule
\* is Interval and the rule has no recorded trigger or now_ts is at least
\* interval_seconds past the last one; after record_trigger(rule.id, t) it is
\* false for every now_ts in [t, t + interval_seconds)
Thm_C12 ==
    ReturnedFrom("check_interval") =>
        LET rule == Unwrap(sched_ret).rule
        IN  /\ Unwrap(sched_ret).ret
                = (/\ rule.enabled
                   /\ rule.schedule.type = "Interval"
                   /\ \/ rule.id \notin DOMAIN sched_last_triggered_ts
                      \/ wall >= sched_last_triggered_ts[rule.id]
                                    + rule.schedule.interval_seconds)
            /\ (/\ rule.schedule.type = "Interval"
                /\ IsSome(sched_mark)
                /\ Unwrap(sched_mark).id = rule.id
                /\ wall >= Unwrap(sched_mark).ts
                /\ wall < Unwrap(sched_mark).ts + rule.schedule.interval_seconds)
               => Unwrap(sched_ret).ret = FALSE

\* an enabled Interval rule asked 30 s after its trigger was recorded
Wit_C12 ==
    /\ ReturnedFrom("check_interval")
    /\ Unwrap(sched_ret).rule.enabled
    /\ Unwrap(sched_ret).rule.schedule.type = "Interval"
    /\ IsSome(sched_mark)
    /\ Unwrap(sched_mark).id = Unwrap(sched_ret).rule.id
    /\ wall > Unwrap(sched_mark).ts
    /\ wall < Unwrap(sched_mark).ts + Unwrap(sched_ret).rule.schedule.interval_seconds
    /\ Unwrap(sched_ret).ret = FALSE

\* what a call that does not fire returns
NotFired(call) ==
    CASE call.op \in {"should_trigger", "check_interval", "check_schedules"} ->
            call.ret = FALSE
      [] call.op = "next_trigger" -> call.ret = None

\* C19: a schedule rule with enabled = false never fires: should_trigger and
\* check_interval return false and next_trigger returns None, for every now
\* and every ledger state
Thm_C19 ==
    (IsSome(sched_ret) /\ ~Unwrap(sched_ret).rule.enabled)
    => NotFired(Unwrap(sched_ret))

\* a disabled Daily rule asked at its time of day, with nothing in the ledger
\* to hold it back
Wit_C19 ==
    /\ ReturnedFrom("should_trigger")
    /\ ~Unwrap(sched_ret).rule.enabled
    /\ Unwrap(sched_ret).rule.schedule.type = "Calendar"
    /\ matches_schedule(Unwrap(sched_ret).rule.schedule, from_timestamp(wall))
    /\ Unwrap(sched_ret).rule.id \notin DOMAIN sched_last_triggered
    /\ Unwrap(sched_ret).ret = FALSE

\* C20: a rule with a Cron schedule never fires: should_trigger and
\* check_interval return false and next_trigger returns None, for every now
\* and every ledger state
Thm_C20 ==
    (IsSome(sched_ret) /\ Unwrap(sched_ret).rule.schedule.type = "Cron")
    => NotFired(Unwrap(sched_ret))

\* an enabled Cron rule asked for its next trigger, after a trigger of its id
\* was recorded
Wit_C20 ==
    /\ ReturnedFrom("next_trigger")
    /\ Unwrap(sched_ret).rule.enabled
    /\ Unwrap(sched_ret).rule.schedule.type = "Cron"
    /\ Unwrap(sched_ret).rule.id \in DOMAIN sched_last_triggered_ts
    /\ Unwrap(sched_ret).ret = None

\* the day of a DateTime is one that the frequency of the calendar names
DayOfFrequency(cal, d) ==
    CASE cal.frequency = "Daily" -> TRUE
      [] cal.frequency = "Weekly" -> d.weekday = unwrap_or(cal.on, 1)
      [] cal.frequency = "Monthly" -> d.day = unwrap_or(cal.on, 1)
      [] cal.frequency = "Yearly" -> d.day = unwrap_or(cal.on, 1) /\ d.month = 1

\* the instants after now_ts, within the 366 days that follow it, with
\* second 0, hour:minute = at and a day of the frequency
TriggerInstants(cal, now_ts) ==
    {t \in {(now_ts \div SecondsPerDay + d) * SecondsPerDay
               + cal.at.hour * SecondsPerHour + cal.at.minute * SecondsPerMinute :
               d \in 0..366} :
        /\ t > now_ts
        /\ t <= now_ts + 366 * SecondsPerDay
        /\ DayOfFrequency(cal, from_timestamp(t))}

\* C39: for an enabled Calendar rule next_trigger returns the earliest
\* instant after now.timestamp with second 0, hour:minute = at and a day of
\* the frequency, whenever there is one in the following 366 days; and
\* should_trigger of a Scheduler without a recorded trigger of the rule is
\* true at that instant
Thm_C39 ==
    (/\ IsSome(sched_ret)
     /\ Unwrap(sched_ret).op = "next_trigger"
     /\ Unwrap(sched_ret).rule.enabled
     /\ Unwrap(sched_ret).rule.schedule.type = "Calendar"
     /\ Unwrap(sched_ret).rule.id \notin DOMAIN sched_last_triggered_ts)
    => \A instants \in {TriggerInstants(Unwrap(sched_ret).rule.schedule, wall)} :
          instants /= {} =>
             \E t \in instants :
                /\ \A u \in instants : t <= u
                /\ Unwrap(sched_ret).ret = Some(t)
                /\ should_trigger(TheScheduler, Unwrap(sched_ret).rule,
                                  from_timestamp(t))

\* a yearly rule at 00:01, asked on 1970-01-01 at 00:01:30, is due on
\* 1971-01-01 at 00:01:00
Wit_C39 ==
    /\ IsSome(sched_ret)
    /\ Unwrap(sched_ret).op = "next_trigger"
    /\ Unwrap(sched_ret).rule.schedule
         = CalendarSchedule("Yearly", [hour |-> 0, minute |-> 1], None)
    /\ wall = 90
    /\ Unwrap(sched_ret).ret = Some(365 * SecondsPerDay + 60)
-----------------------------------------------------------------------------
(* Claims about the runtime *)

RtReturnedFrom(op) == IsSome(rt_ret) /\ Unwrap(rt_ret).op = op

\* C1: after evaluate_event_rule returned triggered = true for a rule with
\* cooldown_seconds = C at instant T, every later evaluate_event_rule call for
\* that rule at an instant in [T, T + C) returns Ok with triggered = false and
\* exactly one action result, Skipped "In cooldown", whatever the snapshot
Thm_C1 ==
    (/\ RtReturnedFrom("evaluate_event_rule")
     /\ Unwrap(rt_ret).later
     /\ IsSome(rt_mark)
     /\ Unwrap(rt_mark).rule.id = Unwrap(rt_ret).rule.id
     /\ IsSome(Unwrap(rt_ret).rule.cooldown_seconds)
     /\ Unwrap(rt_mark).rule.cooldown_seconds = Unwrap(rt_ret).rule.cooldown_seconds
     /\ clock >= Unwrap(rt_mark).at
     /\ clock < Unwrap(rt_mark).at + Unwrap(Unwrap(rt_ret).rule.cooldown_seconds))
    => /\ Unwrap(rt_ret).ret.ok
       /\ Unwrap(rt_ret).ret.v.triggered = FALSE
       /\ Unwrap(rt_ret).ret.v.actions = <<Skipped("In cooldown")>>

\* thirty seconds into the cooldown, a snapshot without the metric that the
\* rule's condition reads
Wit_C1 ==
    /\ RtReturnedFrom("evaluate_event_rule")
    /\ Unwrap(rt_ret).later
    /\ IsSome(rt_mark)
    /\ Unwrap(rt_mark).rule = Unwrap(rt_ret).rule
    /\ Unwrap(rt_ret).rule.enabled
    /\ IsSome(Unwrap(rt_ret).rule.cooldown_seconds)
    /\ clock > Unwrap(rt_mark).at
    /\ clock < Unwrap(rt_mark).at + Unwrap(Unwrap(rt_ret).rule.cooldown_seconds)
    /\ Unwrap(rt_ret).metrics = SnapshotEmpty
    /\ Unwrap(rt_ret).ret.ok
    /\ Unwrap(rt_ret).ret.v.actions = <<Skipped("In cooldown")>>

\* C3: after record_history calls with non-decreasing timestamps, the last of
\* them tn, no retained sample of any metric is older than
\* tn - max_age_seconds * 1000
Cex_C3 ==
    IsSome(rt_tn) =>
        \A metric \in DOMAIN runtime.history.data :
            \A i \in 1..Len(runtime.history.data[metric]) :
                runtime.history.data[metric][i][1]
                    >= Unwrap(rt_tn) - runtime.history.max_age_seconds * 1000

\* the Event rules of a rule list, in its order
EventRules(rules) == SelectSeq(rules, LAMBDA rule : rule.rule_type = "Event")

\* C13: evaluate_all returns, when no rule raises an error, exactly one
\* RuleResult per Event rule of the Program, in the Program's declaration
\* order, and no result for any Schedule rule; the Runtime it leaves is the
\* one that the same call leaves for the Program without its Schedule rules
Thm_C13 ==
    [][(/\ IsSome(rt_ret')
        /\ Unwrap(rt_ret').op = "evaluate_all"
        /\ Unwrap(rt_ret').ret.ok)
       => LET call == Unwrap(rt_ret')
              events == EventRules(call.program.rules)
          IN  /\ Len(call.ret.v) = Len(events)
              /\ \A i \in 1..Len(events) : call.ret.v[i].rule_id = events[i].id
              /\ runtime' = evaluate_all(runtime,
                                         Program(call.program.version,
                                                 call.program.variables, events),
                                         call.metrics, clock, WallMs).rt]_vars

\* a program with a Schedule rule before and between its two Event rules,
\* the first of which triggered
Wit_C13 ==
    /\ RtReturnedFrom("evaluate_all")
    /\ Unwrap(rt_ret).program = RtProgramMixed
    /\ Unwrap(rt_ret).ret.ok
    /\ Len(Unwrap(rt_ret).ret.v) = 2
    /\ Unwrap(rt_ret).ret.v[1].rule_id = RuleIdOf(1)
    /\ Unwrap(rt_ret).ret.v[1].triggered
    /\ Unwrap(rt_ret).ret.v[2].rule_id = RuleIdOf(2)

\* C15: evaluate_event_rule on a rule with enabled = false returns Ok with
\* triggered = false and a single Skipped action, "In cooldown" when the
\* rule is in cooldown and "Rule disabled" when it is not; the condition is
\* not evaluated, so a snapshot without the metric raises no error
Thm_C15 ==
    (RtReturnedFrom("evaluate_event_rule") /\ ~Unwrap(rt_ret).rule.enabled)
    => LET rule == Unwrap(rt_ret).rule
           ret == Unwrap(rt_ret).ret
       IN  /\ ret.ok
           /\ ret.v.triggered = FALSE
           /\ ret.v.actions
                = <<Skipped(IF /\ IsSome(rule.cooldown_seconds)
                               /\ is_in_cooldown(runtime.cooldowns, rule.id,
                                                 Unwrap(rule.cooldown_seconds), clock)
                            THEN "In cooldown" ELSE "Rule disabled")>>

\* a disabled rule, not in cooldown, evaluated on a snapshot without the
\* metric of its condition
Wit_C15 ==
    /\ RtReturnedFrom("evaluate_event_rule")
    /\ ~Unwrap(rt_ret).rule.enabled
    /\ Unwrap(rt_ret).metrics = SnapshotEmpty
    /\ Unwrap(rt_ret).rule.id \notin DOMAIN runtime.cooldowns
    /\ Unwrap(rt_ret).ret.ok
    /\ Unwrap(rt_ret).ret.v.actions = <<Skipped("Rule disabled")>>

\* ---------------------------------------------------------------------------
\* C24  load_variables is idempotent per program and touches only the
\*      variable table: in every step that is a load_variables(P) call,
\*      the Runtime that the call leaves is the one that a second
\*      load_variables(P) would leave too, and its cooldown ledger, history
\*      and previous snapshot are those from before the call.
Thm_C24 ==
    [][\A program \in RtLoadedSamples :
          LoadVariables(program) =>
             /\ load_variables(runtime', program) = runtime'
             /\ runtime'.cooldowns = runtime.cooldowns
             /\ runtime'.history = runtime.history
             /\ runtime'.previous_values = runtime.previous_values]_vars

\* the program that declares the threshold twice was loaded on a Runtime
\* with a trigger in its ledger, a history and a previous snapshot
Wit_C24 ==
    /\ rt_ret = Some([op |-> "load_variables", program |-> RtProgramTwice])
    /\ MapGet(runtime.variables, NameThreshold) = Some(F(1000))
    /\ IsSome(rt_mark)
    /\ runtime.cooldowns /= Runtime_new.cooldowns
    /\ runtime.previous_values /= Runtime_new.previous_values
    /\ runtime.history /= Runtime_new.history

\* C27: when evaluate_all returns a RuntimeError, the Runtime is as it was
\* before the call
Cex_C27 ==
    [][\A program \in RtProgramSamples, metrics \in RtSnapshots :
          (EvaluateAll(program, metrics) /\ ~Unwrap(rt_ret').ret.ok)
              => runtime' = runtime]_vars

\* the loop of evaluate_all with every rule's condition set against the
\* snapshot `previous`, whatever the rules before it left as previous_values
RECURSIVE AgainstPrevious(_, _, _, _, _, _, _, _)
AgainstPrevious(rt, previous, rules, metrics, now, current_time_ms, results, i) ==
    IF i > Len(rules) THEN Ok(results)
    ELSE IF rules[i].rule_type /= "Event"
    THEN AgainstPrevious(rt, previous, rules, metrics, now, current_time_ms,
                         results, i + 1)
    ELSE Bind(evaluate_event_rule([rt EXCEPT !.previous_values = previous],
                                  rules[i], metrics, now, current_time_ms),
              LAMBDA r :
             IF ~r.ret.ok THEN r.ret
             ELSE AgainstPrevious(r.rt, previous, rules, metrics, now,
                                  current_time_ms, Append(results, r.ret.v), i + 1))

\* C28: within one evaluate_all call every Trend condition is compared with
\* the previous snapshot that the Runtime held when the call started: the
\* call returns what the rules give against that snapshot
Cex_C28 ==
    [][\A program \in RtProgramSamples, metrics \in RtSnapshots :
          EvaluateAll(program, metrics)
              => Unwrap(rt_ret').ret
                   = AgainstPrevious(runtime, runtime.previous_values,
                                     program.rules, metrics, clock, WallMs,
                                     <<>>, 1)]_vars

\* ---------------------------------------------------------------------------
\* C29  On a Runtime that starts new, a program whose event rules all have
\*      a bare trend (RISING, FALLING, STABLE) as their condition never
\*      triggers a rule, whatever is recorded and evaluated and in whatever
\*      order: evaluate_all returns a result that is not triggered and has
\*      no action for each event rule, and the Runtime keeps an empty
\*      cooldown ledger and the previous snapshot it was made with.
Thm_C29 ==
    /\ runtime.previous_values = Runtime_new.previous_values
    /\ runtime.cooldowns = Runtime_new.cooldowns
    /\ RtReturnedFrom("evaluate_all") =>
          /\ Unwrap(rt_ret).ret.ok
          /\ Len(Unwrap(rt_ret).ret.v) = 3
          /\ \A j \in 1..3 :
                /\ ~Unwrap(rt_ret).ret.v[j].triggered
                /\ Unwrap(rt_ret).ret.v[j].actions = <<>>

\* evaluate_all returned for a snapshot with battery_soc and pv_power, after
\* time passed and history was recorded
Wit_C29 ==
    /\ RtReturnedFrom("evaluate_all")
    /\ Unwrap(rt_ret).program = TrendProgram
    /\ Unwrap(rt_ret).metrics = SnapshotHigh
    /\ clock > 0
    /\ runtime.history /= Runtime_new.history

\* ---------------------------------------------------------------------------
\* C31  evaluate_event_rule changes the Runtime only when it returns
\*      triggered = true: a call that returns a result that is not triggered
\*      (in cooldown, disabled, condition false) or a RuntimeError leaves
\*      the Runtime as it was; and no evaluate_event_rule or evaluate_all
\*      call changes the variable table or the history.
Thm_C31 ==
    [][(IsSome(rt_ret') /\ Unwrap(rt_ret').op \in {"evaluate_event_rule", "evaluate_all"})
       => /\ runtime'.variables = runtime.variables
          /\ runtime'.history = runtime.history
          /\ (/\ Unwrap(rt_ret').op = "evaluate_event_rule"
              /\ ~(Unwrap(rt_ret').ret.ok /\ Unwrap(rt_ret').ret.v.triggered))
             => runtime' = runtime]_vars

\* evaluate_event_rule returned a RuntimeError on a Runtime that holds a
\* trigger of another rule, a previous snapshot and recorded history
Wit_C31 ==
    /\ RtReturnedFrom("evaluate_event_rule")
    /\ ~Unwrap(rt_ret).ret.ok
    /\ Unwrap(rt_ret).rule.id \notin DOMAIN runtime.cooldowns
    /\ runtime.cooldowns /= Runtime_new.cooldowns
    /\ runtime.previous_values /= Unwrap(rt_ret).metrics
    /\ runtime.history /= Runtime_new.history

\* what the three directions ask of the difference to the previous value
DirectionHolds(direction, diff, threshold) ==
    CASE direction = "Rising" -> diff > threshold
      [] direction = "Falling" -> diff < 0 - threshold
      [] direction = "Stable" -> diff <= threshold /\ 0 - diff <= threshold

Deciding(children, settles) ==
    LET deciding == {i \in 1..Len(children) :
                        ~children[i].ok \/ children[i].v = settles}
    IN  IF deciding = {} THEN 0
        ELSE CHOOSE i \in deciding : \A j \in deciding : i <= j

\* ---------------------------------------------------------------------------
\* C33  AND and OR evaluate their children left to right and stop at the
\*      first child that settles the result (false for AND, true for OR) or
\*      raises an error, so a RuntimeError of a later child is not raised;
\*      NOT negates its first child only.  In every evaluate_event_rule step
\*      on an enabled rule without cooldown whose condition is logical, the
\*      call returns what the children, each evaluated alone on the Runtime
\*      before the call, give in this way.
Thm_C33 ==
    [][(/\ IsSome(rt_ret')
        /\ Unwrap(rt_ret').op = "evaluate_event_rule"
        /\ Unwrap(rt_ret').rule.condition.type = "Logical"
        /\ EvaluateEventRule(Unwrap(rt_ret').rule, Unwrap(rt_ret').metrics))
       => LET call == Unwrap(rt_ret')
              log == call.rule.condition
              children == [i \in 1..Len(log.conditions) |->
                              evaluate_condition(runtime, log.conditions[i],
                                                 call.metrics, WallMs)]
              first == Deciding(children, log.operator = "Or")
              expected ==
                  CASE log.operator = "Not" ->
                          IF children = <<>> THEN Ok(TRUE)
                          ELSE IF children[1].ok THEN Ok(~children[1].v)
                          ELSE children[1]
                    [] OTHER ->
                          IF first = 0 THEN Ok(log.operator = "And")
                          ELSE IF children[first].ok THEN Ok(log.operator = "Or")
                          ELSE children[first]
          IN  IF expected.ok
              THEN call.ret.ok /\ call.ret.v.triggered = expected.v
              ELSE call.ret = expected]_vars

\* battery_soc < 20% OR AVG(pv_power, 1hour) > $threshold triggered at 15 %
\* on a Runtime where the second comparison alone raises an error
Wit_C33 ==
    /\ RtReturnedFrom("evaluate_event_rule")
    /\ Unwrap(rt_ret).rule = LogicalRule("Or", <<ConditionLowSoc, ConditionSunny>>)
    /\ Unwrap(rt_ret).metrics = SnapshotLow
    /\ Unwrap(rt_ret).ret.ok
    /\ Unwrap(rt_ret).ret.v.triggered
    /\ ~evaluate_condition(runtime, ConditionSunny, SnapshotLow, WallMs).ok

\* the lower-middle element of the sorted samples: the k-th smallest of 2k
\* and of 2k - 1 samples
LowerMiddle(values) == SortAscending(values)[(Len(values) + 1) \div 2]

\* C36: with history in the period, PERCENTILE is the lower-middle element
\* of the sorted samples: the rule PERCENTILE(pv_power, 1hour) > 1000W
\* triggers exactly when that element is above 1000 W
Cex_C36 ==
    (/\ RtReturnedFrom("evaluate_event_rule")
     /\ Unwrap(rt_ret).rule = RulePercentile
     /\ get_range(runtime.history, "PvPower", 3600, WallMs) /= <<>>)
    => /\ Unwrap(rt_ret).ret.ok
       /\ Unwrap(rt_ret).ret.v.triggered
            = (LowerMiddle(get_range(runtime.history, "PvPower", 3600, WallMs))
                  > F(1000))
-----------------------------------------------------------------------------
(* Claims about the front end *)

Parsed == parser.state = "Done" /\ parser.result.ok
Compiled == IsSome(compiled) /\ Unwrap(compiled).ok

\* C4: every Program that the parser produced has pairwise distinct rule
\* ids, event and schedule rules alike, however quickly the rules were parsed
Cex_C4 ==
    Parsed =>
        \A i, j \in 1..Len(parser.result.v.rules) :
            i /= j => parser.result.v.rules[i].id /= parser.result.v.rules[j].id

\* the metrics that occur in an expression
RECURSIVE MetricsOfExpression(_)
MetricsOfExpression(expr) ==
    CASE expr.type = "Metric" -> {expr.metric}
      [] expr.type = "Function" ->
            UNION {MetricsOfExpression(expr.args[i]) : i \in 1..Len(expr.args)}
      [] expr.type = "Binary" ->
            MetricsOfExpression(expr.left) \cup MetricsOfExpression(expr.right)
      [] OTHER -> {}

\* the metrics that occur in a condition
RECURSIVE MetricsOfCondition(_)
MetricsOfCondition(cond) ==
    CASE cond.type = "Comparison" ->
            MetricsOfExpression(cond.left) \cup MetricsOfExpression(cond.right)
      [] cond.type = "Logical" ->
            UNION {MetricsOfCondition(cond.conditions[i]) :
                      i \in 1..Len(cond.conditions)}
      [] cond.type \in {"Trend", "Anomaly"} -> {cond.metric}
      [] OTHER -> {}

\* the metrics that occur in the expression parts of a template
MetricsOfTemplate(template) ==
    UNION {MetricsOfExpression(template.parts[i].expr) :
              i \in {k \in 1..Len(template.parts) :
                        template.parts[k].part_type = "Expression"}}

\* the metrics that occur in the templates of an action
MetricsOfAction(action) ==
    CASE action.action_type \in {"Notify", "Log"} ->
            MetricsOfTemplate(action.message)
      [] action.action_type = "Webhook" /\ IsSome(action.body) ->
            MetricsOfTemplate(Unwrap(action.body))
      [] OTHER -> {}

\* the metrics that occur in a condition or an expression of a program
MetricsOfProgram(program) ==
    UNION {(IF program.rules[i].rule_type = "Event"
            THEN MetricsOfCondition(program.rules[i].condition) ELSE {})
           \cup UNION {MetricsOfAction(program.rules[i].actions[k]) :
                          k \in 1..Len(program.rules[i].actions)} :
              i \in 1..Len(program.rules)}

\* C6: the required_metrics of a compiled program that parse accepted list
\* each metric that occurs in a condition or an expression of the program,
\* the arguments of functions included, once, and no other metric
Thm_C6 ==
    Compiled =>
        /\ SeqRange(Unwrap(compiled).v.required_metrics)
               = MetricsOfProgram(parser.result.v)
        /\ Len(Unwrap(compiled).v.required_metrics)
               = Cardinality(MetricsOfProgram(parser.result.v))

Wit_C6 ==
    /\ Compiled
    /\ parser.source = SourceAggregate
    /\ SeqRange(Unwrap(compiled).v.required_metrics) = {"PvPower", "BatteryPower"}

\* the function calls of an expression
RECURSIVE CallsOfExpression(_)
CallsOfExpression(expr) ==
    CASE expr.type = "Function" ->
            {expr} \cup UNION {CallsOfExpression(expr.args[i]) :
                                  i \in 1..Len(expr.args)}
      [] expr.type = "Binary" ->
            CallsOfExpression(expr.left) \cup CallsOfExpression(expr.right)
      [] OTHER -> {}

\* the Trend, Anomaly and Comparison conditions of a condition
RECURSIVE LeavesOfCondition(_)
LeavesOfCondition(cond) ==
    IF cond.type = "Logical"
    THEN UNION {LeavesOfCondition(cond.conditions[i]) :
                   i \in 1..Len(cond.conditions)}
    ELSE {cond}

LeavesOfProgram(program) ==
    UNION {LeavesOfCondition(program.rules[i].condition) :
              i \in {k \in 1..Len(program.rules) :
                        program.rules[k].rule_type = "Event"}}

\* the function calls of the conditions of a program
CallsOfProgram(program) ==
    UNION {CallsOfExpression(c.left) \cup CallsOfExpression(c.right) :
              c \in {l \in LeavesOfProgram(program) : l.type = "Comparison"}}

HasTrend(program) == \E c \in LeavesOfProgram(program) : c.type = "Trend"

\* C7 as stated: requires_history is true exactly when the program has a
\* function call with an explicit period, an Anomaly or a Trend condition,
\* whatever the periods are
Cex_C7 ==
    Compiled =>
        Unwrap(compiled).v.requires_history
            = ( \/ \E f \in CallsOfProgram(parser.result.v) : IsSome(f.period_seconds)
                \/ \E c \in LeavesOfProgram(parser.result.v) : c.type = "Anomaly"
                \/ HasTrend(parser.result.v) )

\* C7: requires_history is true exactly when the program has a function call
\* with an explicit period of more than 0 seconds, an Anomaly condition with
\* a period of more than 0 seconds, or a Trend condition
Thm_C7 ==
    Compiled =>
        Unwrap(compiled).v.requires_history
            = ( \/ \E f \in CallsOfProgram(parser.result.v) :
                      IsSome(f.period_seconds) /\ Unwrap(f.period_seconds) > 0
                \/ \E c \in LeavesOfProgram(parser.result.v) :
                      c.type = "Anomaly" /\ c.period_seconds > 0
                \/ HasTrend(parser.result.v) )

Wit_C7 ==
    /\ Compiled
    /\ parser.source = SourceZeroPeriod
    /\ \E f \in CallsOfProgram(parser.result.v) : f.period_seconds = Some(0)
    /\ ~Unwrap(compiled).v.requires_history

\* the Value that holds exactly the base units of a literal
ExactValue(lit) ==
    CASE lit.unit \in PowerUnits ->
            ValuePower(lit.numeral.tenths * (Scale \div 10) * UnitFactor(lit.unit))
      [] lit.unit \in EnergyUnits ->
            ValueEnergy(lit.numeral.tenths * (Scale \div 10) * UnitFactor(lit.unit))
      [] lit.unit \in DurationUnits ->
            ValueDuration((lit.numeral.tenths * UnitFactor(lit.unit)) \div 10)

\* C9: a numeric literal with a unit is stored as the exact number of base
\* units: n, n * 1000, n * 1000000 watts or watt-hours, and n, n * 60,
\* n * 3600, n * 86400, n * 604800 seconds
Cex_C9 ==
    \A lit \in LiteralSamples :
        (parser.state = "Done" /\ parser.source = LiteralSource(lit)) =>
            /\ parser.result.ok
            /\ Len(parser.result.v.variables) = 1
            /\ parser.result.v.variables[1].value = ExactValue(lit)

\* C16: a {metric} placeholder inside a NOTIFY string is replaced at trigger
\* time by the formatted current metric value: the program parsed from
\* SourceLowBattery, evaluated on a snapshot with battery_soc = 15, triggers
\* its rule and yields exactly one Notify action with the message Low: 15%
Cex_C16 ==
    (/\ Parsed
     /\ parser.source = SourceLowBattery
     /\ RtReturnedFrom("evaluate_all")
     /\ Unwrap(rt_ret).program = parser.result.v
     /\ Unwrap(rt_ret).metrics = SnapshotLow)
    => /\ Unwrap(rt_ret).ret.ok
       /\ Len(Unwrap(rt_ret).ret.v) = 1
       /\ Unwrap(rt_ret).ret.v[1].triggered
       /\ Unwrap(rt_ret).ret.v[1].actions
            = <<[type |-> "Notify", message |-> <<"L", "o", "w", ":", " ", "1", "5", "%">>]>>

\* C17: every Program that the parser produced has pairwise distinct
\* variable names
Cex_C17 ==
    Parsed =>
        \A i, j \in 1..Len(parser.result.v.variables) :
            i /= j => parser.result.v.variables[i].name
                        /= parser.result.v.variables[j].name

\* the largest element of a non-empty set of numbers
MaxOf(set) == CHOOSE x \in set : \A y \in set : y <= x

\* the history that the conditions of a program ask for, in seconds
HistoryNeeds(program) ==
    {Unwrap(f.period_seconds) :
        f \in {g \in CallsOfProgram(program) : IsSome(g.period_seconds)}}
    \cup {c.period_seconds :
             c \in {l \in LeavesOfProgram(program) : l.type = "Anomaly"}}
    \cup (IF HasTrend(program) THEN {3600} ELSE {})

\* C18: for a compiled program that requires history max_history_seconds is
\* at least the period of every aggregate function call and of every Anomaly
\* condition, at least 3600 if a Trend condition exists, and equal to the
\* maximum of those values
Thm_C18 ==
    (Compiled /\ Unwrap(compiled).v.requires_history) =>
        /\ IsSome(Unwrap(compiled).v.max_history_seconds)
        /\ \A need \in HistoryNeeds(parser.result.v) :
              Unwrap(Unwrap(compiled).v.max_history_seconds) >= need
        /\ Unwrap(Unwrap(compiled).v.max_history_seconds)
              = MaxOf(HistoryNeeds(parser.result.v))

\* a Trend condition beside an aggregate over one minute
Wit_C18 ==
    /\ Compiled
    /\ parser.source = SourceShortPeriod
    /\ HistoryNeeds(parser.result.v) = {60, 3600}
    /\ Unwrap(compiled).v.requires_history
    /\ Unwrap(compiled).v.max_history_seconds = Some(3600)

\* ---------------------------------------------------------------------------
\* C21  parse fails fast in the lexer: when a token would have to start at
\*      a character that starts none (`@`, or `!` without `=` after it), at a
\*      string that is not closed before the end of its line or of the input,
\*      or at a `$` without a character of an identifier after it, parse
\*      returns the error of the lexer for that position and no Program,
\*      whatever text follows the position.
Thm_C21 ==
    \A prefix \in OffencePrefixes : \A o \in LexerOffences :
        (parser.state = "Done" /\ parser.source = OffendingSource(prefix, o))
            => /\ ~parser.result.ok
               /\ parser.result.err.kind = "Lexer"
               /\ parser.result.err.message = o.message

\* parse has returned on a source where a declaration follows the `@`
Wit_C21 ==
    /\ parser.state = "Done"
    /\ parser.source = <<"$", "x", " ", "=", " ", "1", "\n", "@", "=", " ", "1", "\n", "$", "y", " ", "=", " ", "2">>
    /\ ~parser.result.ok

\* the times of day in a program: the Time values of its variables and the
\* `at` of its calendar schedules
TimesOfProgram(program) ==
    {[hour |-> program.variables[i].value.hour,
      minute |-> program.variables[i].value.minute] :
        i \in {k \in 1..Len(program.variables) :
                  program.variables[k].value.type = "Time"}}
    \cup {program.rules[i].schedule.at :
            i \in {k \in 1..Len(program.rules) :
                      /\ program.rules[k].rule_type = "Schedule"
                      /\ program.rules[k].schedule.type = "Calendar"}}

\* C22: every Time value and every time of day of a schedule in a Program
\* that the parser produced has its hour in 0..23 and its minute in 0..59
Cex_C22 ==
    Parsed =>
        \A t \in TimesOfProgram(parser.result.v) :
            t.hour \in 0..23 /\ t.minute \in 0..59

\* what the needs of a compiled program are: its required metrics as a set,
\* requires_history and max_history_seconds
NeedsOf(compiled_program) ==
    [required_metrics |-> SeqRange(compiled_program.required_metrics),
     requires_history |-> compiled_program.requires_history,
     max_history_seconds |-> compiled_program.max_history_seconds]

\* ---------------------------------------------------------------------------
\* C23  The compiler carries no state from one compile to the next: what
\*      compile returns for a program on a Compiler that has compiled other
\*      programs has the required_metrics (as a set), the requires_history
\*      and the max_history_seconds that compile returns for the program on
\*      a new Compiler.
Thm_C23 ==
    IsSome(compiler_ret) =>
        \E fresh \in {compile(Compiler_new, Unwrap(compiler_ret).program, wall,
                              Unwrap(compiler_ret).hash_order).ret} :
            /\ Unwrap(compiler_ret).ret.ok = fresh.ok
            /\ fresh.ok => NeedsOf(Unwrap(compiler_ret).ret.v) = NeedsOf(fresh.v)

\* a program with no event rule was compiled on a Compiler that another
\* compile had left with metrics and a history need
Wit_C23 ==
    /\ IsSome(compiler_ret)
    /\ Unwrap(compiler_ret).on.required_metrics /= {}
    /\ Unwrap(compiler_ret).on.max_history_seconds > 0
    /\ Unwrap(compiler_ret).ret.ok
    /\ Unwrap(compiler_ret).ret.v.required_metrics = <<>>
    /\ ~Unwrap(compiler_ret).ret.v.requires_history

\* C30: a trigger of one event rule never makes another event rule of the
\* same parsed Program come back as Skipped("In cooldown"): in the first
\* evaluate_all of a parsed Program on a new Runtime, where no rule has
\* triggered before, no rule is reported as in cooldown
Cex_C30 ==
    (/\ Parsed
     /\ RtReturnedFrom("evaluate_all")
     /\ Unwrap(rt_ret).program = parser.result.v
     /\ Unwrap(rt_ret).ret.ok)
    => \A j \in 1..Len(Unwrap(rt_ret).ret.v) :
          Unwrap(rt_ret).ret.v[j].actions /= <<Skipped("In cooldown")>>

\* the source that the lexer returned from, with its tokens
Lexed(source) ==
    parser.state = "Lexed" /\ parser.source = source /\ parser.result.ok

\* C37: a number immediately followed by one of the duration suffixes s,
\* sec, min, m, h, hour, d, day, w, week, month, in any letter case, is
\* lexed as one Duration token whose text is the number with the suffix
Cex_C37 ==
    \A source \in SuffixedSources :
        (parser.state = "Lexed" /\ parser.source = source)
        => /\ parser.result.ok
           /\ Len(parser.result.v) = 2
           /\ parser.result.v[1].kind = "Duration"
           /\ parser.result.v[1].value = source
           /\ parser.result.v[2].kind = "Eof"

\* the line that starts at index i of the source is blank (ended by a line
\* feed) or holds only a `#` or `//` comment, after any spaces and tabs
BlankOrCommentLine(source, i) ==
    LET j == SkipWhileIn(source, i, {" ", "\t"})
    IN  \/ peek_char(source, j) \in {Some("\n"), Some("#")}
        \/ peek_char(source, j) = Some("/") /\ peek_char(source, j + 1) = Some("/")

\* C38: the turn of the lexer that takes the line feed before a blank or
\* comment-only line leaves the indent stack as it was and adds no Indent
\* and no Dedent token
Cex_C38 ==
    [][(/\ parser.state = "Lexing"
        /\ parser'.state = "Lexing"
        /\ parser.lx.pos <= Len(parser.source)
        /\ parser.source[parser.lx.pos] = "\n"
        /\ BlankOrCommentLine(parser.source, parser.lx.pos + 1))
       => /\ parser'.lx.indent_stack = parser.lx.indent_stack
          /\ \A k \in (Len(parser.lx.tokens) + 1)..Len(parser'.lx.tokens) :
                parser'.lx.tokens[k].kind \notin {"Indent", "Dedent"}]_vars

\* the token vector that Parser::new makes of a source that lexes
TokensOf(source) == Parser_new(tokenize(source).v).tokens

\* a turn of a block's `while` at position k: it consumes a token, returns
\* an error or leaves the loop
TurnProgresses(turn, k) == ~turn.ok \/ turn.leave \/ turn.current > k

\* ---------------------------------------------------------------------------
\* C40  Parser::parse terminates on every token stream that ends in Eof: a
\*      parse that is in its loop leads to a parse that returned; every turn
\*      of the top-level loop that stays in the loop has consumed a token;
\*      every turn of the indented-block loops of event_rule and
\*      schedule_rule, at any position before Eof, consumes a token, returns
\*      an error or leaves the loop; and the position is always an index of
\*      the token vector, whose last token is Eof.
Thm_C40 ==
    /\ [](parser.state = "Parsing" =>
            /\ parser.current \in 1..Len(parser.tokens)
            /\ parser.tokens[Len(parser.tokens)].kind = "Eof"
            /\ \A k \in 1..(Len(parser.tokens) - 1) :
                  /\ TurnProgresses(event_block_turn(parser.tokens, k,
                                         [actions |-> <<>>, cooldown |-> None]), k)
                  /\ TurnProgresses(schedule_block_turn(parser.tokens, k, <<>>), k))
    /\ [][(parser.state = "Parsing" /\ parser'.state = "Parsing")
              => parser'.current > parser.current]_vars
    /\ (parser.state = "Parsing" ~> parser.state = "Done")

\* parse returned a program with the rule of a source whose indented block
\* holds a comment line and an action that the block does not take, after
\* turns of the top-level loop that passed over the tokens left behind
Wit_C40 ==
    /\ parser.state = "Done"
    /\ parser.source = LayoutSource(<<"/", "/", " ", "c">>)
    /\ parser.result.ok
    /\ Len(parser.result.v.rules) = 1
-----------------------------------------------------------------------------
(* Claims about the server *)

\* no two evaluate requests are between runtimes.write() and its release
MutualExclusion ==
    \A p, q \in EvaluateRequests : p /= q => ~(InSection(p) /\ InSection(q))

\* the request reported the rule as triggered
TriggeredIn(req, rule) ==
    /\ Evaluated(req)
    /\ rule \in TriggeredRules(Unwrap(requests[req].program),
                               Unwrap(requests[req].results))

CooldownRules ==
    {rule \in UNION {SeqRange(program.rules) : program \in SrvPrograms} :
        rule.rule_type = "Event" /\ IsSome(rule.cooldown_seconds)}

\* the two requests were in flight at the same time
Concurrent(p, q) == p \in requests[q].overlaps \/ q \in requests[p].overlaps

\* C5 as stated: the record_history and evaluate_all steps of two concurrent
\* evaluate requests on one site never interleave, and so a rule with a
\* cooldown triggers in at most one of the two requests
Cex_C5 ==
    /\ MutualExclusion
    /\ \A p, q \in EvaluateRequests :
          (p /= q /\ Evaluated(p) /\ Evaluated(q) /\ Concurrent(p, q)
           /\ requests[p].site_id = requests[q].site_id) =>
              \A rule \in CooldownRules :
                  ~(TriggeredIn(p, rule) /\ TriggeredIn(q, rule))

\* C5: the record_history and evaluate_all steps of two evaluate requests on
\* one site never interleave; when a rule with a cooldown of C seconds
\* triggers in both, on a runtime that no store_rules replaced in between,
\* the later evaluation came C seconds or more after the earlier one
Thm_C5 ==
    /\ MutualExclusion
    /\ \A q \in EvaluateRequests :
          Evaluated(q) =>
              \A p \in requests[q].since, rule \in CooldownRules :
                  (requests[p].site_id = requests[q].site_id
                   /\ TriggeredIn(p, rule) /\ TriggeredIn(q, rule)) =>
                      requests[q].at - requests[p].at
                          >= Unwrap(rule.cooldown_seconds)

Wit_C5 ==
    \E p, q \in EvaluateRequests :
        /\ p /= q /\ Evaluated(p) /\ Evaluated(q) /\ Concurrent(p, q)
        /\ p \in requests[q].since
        /\ TriggeredIn(p, RuleLow(TRUE))
        /\ ~TriggeredIn(q, RuleLow(TRUE))
        /\ requests[q].metrics = SnapshotLow
        /\ requests[q].at - requests[p].at < 60

\* the dispatcher.dispatch calls among the calls of a request
DispatchCalls(req) ==
    SelectSeq(requests[req].calls, LAMBDA call : call.kind = "dispatch")

\* C14: in the evaluate handler actions are dispatched only for rules whose
\* result is triggered, in rule declaration order and, within one rule, in
\* the order the actions are declared; every action of a triggered rule is
\* dispatched before the first action of a later rule
Thm_C14 ==
    \A req \in EvaluateRequests :
        (requests[req].pc = "done" /\ requests[req].evaluated
         /\ Unwrap(requests[req].results).ok) =>
            LET results == Unwrap(requests[req].results).v
                rules == Unwrap(requests[req].program).rules
                calls == DispatchCalls(req)
            IN  /\ \A k \in 1..Len(calls) :
                      /\ results[calls[k].result].triggered
                      /\ results[calls[k].result].rule_id
                            = rules[calls[k].result].id
                      /\ calls[k].action \in 1..Len(rules[calls[k].result].actions)
                /\ \A k, l \in 1..Len(calls) :
                      k < l =>
                          \/ calls[k].result < calls[l].result
                          \/ /\ calls[k].result = calls[l].result
                             /\ calls[k].action < calls[l].action
                /\ \A i \in 1..Len(results) :
                      results[i].triggered =>
                          \A j \in 1..Len(rules[i].actions) :
                              \E k \in 1..Len(calls) :
                                  calls[k].result = i /\ calls[k].action = j

\* a request whose first rule was in cooldown and whose second rule
\* triggered with two actions
Wit_C14 ==
    \E req \in EvaluateRequests :
        /\ requests[req].pc = "done" /\ requests[req].evaluated
        /\ Unwrap(requests[req].results).ok
        /\ Len(Unwrap(requests[req].results).v) = 2
        /\ ~Unwrap(requests[req].results).v[1].triggered
        /\ Unwrap(requests[req].results).v[1].actions = <<Skipped("In cooldown")>>
        /\ Unwrap(requests[req].results).v[2].triggered
        /\ DispatchCalls(req)
              = <<[kind |-> "dispatch", result |-> 2, action |-> 1],
                  [kind |-> "dispatch", result |-> 2, action |-> 2]>>

\* the check_schedules request is past its rule loop
Checked(req) == checks[req].pc \in {"write", "done"}

\* the request fired the rule: it is among its triggered_schedules
FiredIn(req, rule) ==
    \E k \in 1..Len(checks[req].triggered_schedules) :
        checks[req].triggered_schedules[k].rule_id = rule.id

\* the two check_schedules requests were in flight at the same time
ChkConcurrent(p, q) == p \in checks[q].overlaps \/ q \in checks[p].overlaps

\* the two timestamps lie on one day
SameDay(s, t) == s \div SecondsPerDay = t \div SecondsPerDay

\* C25: for one site, two concurrent check_schedules requests with
\* timestamps in one calendar period, during which no store_rules replaced
\* the site's scheduler, never both fire the same Calendar rule
Cex_C25 ==
    \A p, q \in CheckRequests :
        (/\ p /= q /\ Checked(p) /\ Checked(q) /\ ChkConcurrent(p, q)
         /\ checks[p].site_id = checks[q].site_id
         /\ ~checks[p].reset /\ ~checks[q].reset
         /\ SameDay(checks[p].timestamp, checks[q].timestamp)) =>
            ~(FiredIn(p, RuleDaily) /\ FiredIn(q, RuleDaily))

\* C26: the evaluate handler never evaluates a site's Program against a
\* Runtime made for another Program of the site: while a request holds the
\* runtimes' write guard, the site's Runtime is the one made from the Program
\* that the request read
Cex_C26 ==
    \A req \in EvaluateRequests :
        InSection(req) =>
            server.built_for[requests[req].site_id] = Unwrap(requests[req].program)

\* C34: while config.dry_run is true no dispatch operation of the
\* dispatcher, dispatch of an ActionResult or dispatch_to_webhooks, sends
\* an HTTP request: the client of a dry-run dispatcher has sent nothing
Cex_C34 == dispatcher.config.dry_run => outbox = <<>>

\* the deliveries that a site's history holds after n arrivals: the last
\* DeliveryHistoryCap of them, in arrival order
MostRecent(site_id, n) ==
    LET kept == IF n < DeliveryHistoryCap THEN n ELSE DeliveryHistoryCap
    IN  [i \in 1..kept |-> DeliveryNo(site_id, n - kept + i)]

\* ---------------------------------------------------------------------------
\* C35  After any sequence of record_delivery calls each site's delivery
\*      history holds at most 100 entries, the site's most recent deliveries
\*      in arrival order, whatever was recorded for the other site; a site
\*      without a delivery has no history.
Thm_C35 ==
    \A site_id \in DeliverySites :
        IF Arrived(site_id) = 0
        THEN site_id \notin DOMAIN webhook_history
        ELSE /\ site_id \in DOMAIN webhook_history
             /\ Len(webhook_history[site_id]) <= 100
             /\ webhook_history[site_id] = MostRecent(site_id, Arrived(site_id))

\* the 102nd delivery of one site was recorded after one of the other site
Wit_C35 ==
    /\ Arrived("demo") = 102
    /\ Arrived("other") = 1
    /\ Len(webhook_history["demo"]) = 100
    /\ webhook_history["demo"][1].timestamp = 3
    /\ webhook_history["demo"][100].timestamp = 102
    /\ webhook_history["other"] = <<DeliveryNo("other", 1)>>
====
